---- MODULE Spec2Model ----
(***************************************************************************)
(* Model of GiNaC's exact matrix algebra (ginac/matrix.cpp): the dense     *)
(* row-major matrix store, pivoting, the three elimination schemes, the    *)
(* memoized minor expansion, determinant, solve, inverse, pow, transpose.  *)
(*                                                                         *)
(* Ring elements (class ex) are modelled as affine forms over the          *)
(* placeholder symbols with exact rational coefficients: a record          *)
(* [k |-> <<num, den>>, t |-> coefficients] where t = <<>> stands for a    *)
(* plain number.  Rationals are kept in lowest terms with a positive       *)
(* denominator, which is the canonical form the numeric class maintains,   *)
(* so normal() and expand() leave a value of the model unchanged.          *)
(* Matrices are records [row, col, m] with m the flat row-major sequence;  *)
(* the C++ index i is the TLA+ index i+1.                                  *)
(***************************************************************************)
EXTENDS Integers, Sequences, FiniteSets, TLC

\* ------------------------------------------------------------------ bounds
\* largest row/column count of an input matrix
MaxDim == 3
\* input entries are the integers -MaxVal .. MaxVal
MaxVal == 1
\* largest number of right-hand-side columns
MaxP == 2
\* exponents of pow are the integers -MaxExp .. MaxExp (and one non-integer)
MaxExp == 4
\* row count of the larger matrices whose determinant is taken, and the
\* largest number of ones in a row of such a matrix
DetDim == 4
RowOnes == 2
\* largest number of cells of an augmented matrix handed to solve
MaxCells == 12
\* largest row/column count of an argument of solve whose shape may be wrong
MaxArgDim == 2
\* the integer scalars of mul_scalar() are -MaxScalar .. MaxScalar
MaxScalar == 2
\* longest flat list handed to a constructor
MaxList == 5

\* ------------------------------------------------------ rational numbers
Abs(x) == IF x < 0 THEN -x ELSE x

RECURSIVE GCD(_, _)
GCD(a, b) == IF b = 0 THEN a ELSE GCD(b, a % b)

\* canonical form of the fraction n/d (d # 0)
Rat(n, d) ==
    LET g == GCD(Abs(n), Abs(d))
        s == IF d < 0 THEN -1 ELSE 1
    IN  <<(s * n) \div g, (s * d) \div g>>

R0 == <<0, 1>>
R1 == <<1, 1>>
RAdd(x, y) == IF x[2] = 1 /\ y[2] = 1 THEN <<x[1] + y[1], 1>>
              ELSE Rat(x[1] * y[2] + y[1] * x[2], x[2] * y[2])
RNeg(x) == <<-x[1], x[2]>>
RSub(x, y) == RAdd(x, RNeg(y))
RMul(x, y) == IF x[2] = 1 /\ y[2] = 1 THEN <<x[1] * y[1], 1>>
              ELSE Rat(x[1] * y[1], x[2] * y[2])
\* y # 0
RDiv(x, y) == Rat(x[1] * y[2], x[2] * y[1])

\* the sequence <<f[1], ..., f[n]>> of a function f on 1..n, every element
\* evaluated once
AsSeq(f) == f \o <<>>

\* ------------------------------------------------------- ring elements
\* number of placeholder symbols an expression can mention
NSym == MaxDim * (IF MaxP > MaxDim THEN MaxP ELSE MaxDim)

NumEx(q) == [k |-> q, t |-> <<>>]
IntEx(i) == NumEx(<<i, 1>>)
ex0 == IntEx(0)
ex1 == IntEx(1)
\* the bare symbol number s (1 .. NSym)
Sym(s) == [k |-> R0, t |-> AsSeq([i \in 1..NSym |-> IF i = s THEN R1 ELSE R0])]

\* coefficient vector of an expression, padded when it is a plain number
Coefs(x) == IF x.t = <<>> THEN [i \in 1..NSym |-> R0] ELSE x.t
\* canonical record: a vanishing symbol part is dropped
Canon(k, t) == LET v == AsSeq(t)
               IN  IF \A i \in 1..Len(v) : v[i][1] = 0 THEN [k |-> k, t |-> <<>>]
                   ELSE [k |-> k, t |-> v]

is_numeric(x) == x.t = <<>>
is_zero(x) == x.t = <<>> /\ x.k[1] = 0
is_symbol(x) == /\ x.t # <<>>
                /\ x.k = R0
                /\ \E s \in 1..NSym : x = Sym(s)
is_integer(x) == x.t = <<>> /\ x.k[2] = 1
is_negative(x) == x.t = <<>> /\ x.k[1] < 0

EAdd(x, y) ==
    IF x.t = <<>> /\ y.t = <<>> THEN [k |-> RAdd(x.k, y.k), t |-> <<>>]
    ELSE Canon(RAdd(x.k, y.k),
               [i \in 1..NSym |-> RAdd(Coefs(x)[i], Coefs(y)[i])])
ENeg(x) == [k |-> RNeg(x.k), t |-> AsSeq([i \in 1..Len(x.t) |-> RNeg(x.t[i])])]
ESub(x, y) == EAdd(x, ENeg(y))
\* x scaled by the rational q
EScale(x, q) ==
    IF x.t = <<>> THEN [k |-> RMul(x.k, q), t |-> <<>>]
    ELSE Canon(RMul(x.k, q), [i \in 1..NSym |-> RMul(x.t[i], q)])
\* product; one factor at least is a plain number (a product of two
\* symbolic factors is not an affine form and has no value in the model)
EMul(x, y) ==
    IF x.t = <<>> THEN EScale(y, x.k)
    ELSE IF y.t = <<>> THEN EScale(x, y.k)
    ELSE CHOOSE z \in {} : TRUE
\* quotient by a nonzero plain number
EDiv(x, y) ==
    IF y.t = <<>> THEN EScale(x, RDiv(R1, y.k))
    ELSE CHOOSE z \in {} : TRUE

\* -------------------------------------------------------- matrix store
\* the matrix with row rows, col columns and the flat row-major sequence m
Mat(r, c, m) == [row |-> r, col |-> c, m |-> AsSeq(m)]

\* matrix::matrix(unsigned r, unsigned c): the r x c zero matrix
ZeroMatrix(r, c) == Mat(r, c, [i \in 1..(r * c) |-> ex0])

\* cell (ro, co), 0-based as in the source
At(M, ro, co) == M.m[ro * M.col + co + 1]
RowOf(M, i) == (i - 1) \div M.col
ColOf(M, i) == (i - 1) % M.col

\* the identity matrix as pow() and inverse() build it
IdentityMatrix(n) ==
    Mat(n, n, [i \in 1..(n * n) |-> IF (i - 1) \div n = (i - 1) % n THEN ex1 ELSE ex0])

\* a faulty exchange: row ro takes the cells of row k, row k keeps its own
SwapRows_OneWay(M, ro, k) ==
    Mat(M.row, M.col,
        [i \in 1..(M.row * M.col) |->
            IF RowOf(M, i) = ro THEN At(M, k, ColOf(M, i)) ELSE M.m[i]])

\* ------------------------------------------------------------- pivoting
\* rows ro and k of M exchanged in every column
SwapRows(M, ro, k) ==
    Mat(M.row, M.col,
        [i \in 1..(M.row * M.col) |->
            IF RowOf(M, i) = ro THEN At(M, k, ColOf(M, i))
            ELSE IF RowOf(M, i) = k THEN At(M, ro, ColOf(M, i))
            ELSE M.m[i]])

\* while ((k<row) && m[k*col+co].expand().is_zero()) ++k;
RECURSIVE FirstNonzeroRow(_, _, _)
FirstNonzeroRow(M, k, co) ==
    IF k < M.row /\ is_zero(At(M, k, co)) THEN FirstNonzeroRow(M, k + 1, co)
    ELSE k

\* matrix::pivot(ro, co, symbolic = true): [indx, mat], indx = -1 when the
\* column vanishes from row ro on, 0 when no interchange was needed, else
\* the row k that was exchanged with row ro
\* a faulty pivot: the interchange is made but reported as none
PivotAt_SilentSwap(M, ro, k) ==
    IF k = M.row THEN [indx |-> -1, mat |-> M]
    ELSE IF k = ro THEN [indx |-> 0, mat |-> M]
    ELSE [indx |-> 0, mat |-> SwapRows(M, ro, k)]

\* matrix::pivot once the while loop has stopped at row k
PivotAt(M, ro, k) ==
    IF k = M.row THEN [indx |-> -1, mat |-> M]
    ELSE IF k = ro THEN [indx |-> 0, mat |-> M]
    ELSE [indx |-> k, mat |-> SwapRows(M, ro, k)]
pivot(M, ro, co) == PivotAt(M, ro, FirstNonzeroRow(M, ro, co))

\* pivot(ro, co, symbolic = false), the loop while (kmax<row): tmp is the
\* cell of row kmax; if (abs(tmp) > mmax) { mmax = tmp; k = kmax; }.
\* mmax and the cells are plain numbers (fractions <<n, d>>, d > 0).
RECURSIVE LargestSearch(_, _, _, _, _)
LargestSearch(M, co, kmax, mmax, k) ==
    IF kmax >= M.row THEN [k |-> k, kmax |-> kmax, mmax |-> mmax]
    ELSE IF Abs(At(M, kmax, co).k[1]) * mmax[2] > mmax[1] * At(M, kmax, co).k[2]
    THEN LargestSearch(M, co, kmax + 1, At(M, kmax, co).k, kmax)
    ELSE LargestSearch(M, co, kmax + 1, mmax, k)

\* the search of pivot(ro, co, false) from its first value of mmax on:
\* after the loop, if (!mmax.is_zero()) k = kmax
LargestRow(s) == IF s.mmax[1] # 0 THEN s.kmax ELSE s.k

\* matrix::pivot(ro, co, symbolic): [indx, mat, beyond].  Without symbolic,
\* kmax = k+1 and mmax = abs(m[kmax*col+co]) are taken before the loop tests
\* kmax<row: for ro = row-1 that cell lies beyond the last row (beyond is
\* TRUE) and what is read there is any number, g.
pivot_mode(M, ro, co, symbolic, g) ==
    IF symbolic
    THEN [indx |-> pivot(M, ro, co).indx, mat |-> pivot(M, ro, co).mat,
          beyond |-> FALSE]
    ELSE [indx |-> PivotAt(M, ro, LargestRow(LargestSearch(M, co, ro + 1,
                       IF ro + 1 < M.row
                       THEN <<Abs(At(M, ro + 1, co).k[1]), At(M, ro + 1, co).k[2]>>
                       ELSE <<Abs(g.k[1]), g.k[2]>>, ro))).indx,
          mat |-> PivotAt(M, ro, LargestRow(LargestSearch(M, co, ro + 1,
                       IF ro + 1 < M.row
                       THEN <<Abs(At(M, ro + 1, co).k[1]), At(M, ro + 1, co).k[2]>>
                       ELSE <<Abs(g.k[1]), g.k[2]>>, ro))).mat,
          beyond |-> ~(ro + 1 < M.row)]

\* ---------------------------------------------------------- elimination
\* "save space by deleting no longer needed elements":
\* if (det) for (c=r0+1; c<n; ++c) m[r0*n+c] = 0
ZeroRightOf(M, det, r0) ==
    IF ~det THEN M
    ELSE Mat(M.row, M.col,
             [i \in 1..(M.row * M.col) |->
                 IF RowOf(M, i) = r0 /\ ColOf(M, i) > r0 THEN ex0 ELSE M.m[i]])

\* a faulty row operation: the multiple of the pivot row is taken without
\* dividing by the pivot
GaussRows_NoDivision(M, r0, r1) ==
    Mat(M.row, M.col,
        [i \in 1..(M.row * M.col) |->
            IF RowOf(M, i) <= r0 THEN M.m[i]
            ELSE IF ColOf(M, i) <= r1 THEN ex0
            ELSE ESub(M.m[i], EMul(At(M, RowOf(M, i), r1), At(M, r0, ColOf(M, i))))])

\* The loop over r2 = r0+1 .. m-1 of gauss_elimination.  A new cell (r2,c)
\* reads the old cells (r2,c), (r2,r1), (r0,r1) and (r0,c) only; piv is
\* taken before the row is zeroed on the left, so the loop is one
\* simultaneous assignment.
GaussRows(M, r0, r1) ==
    Mat(M.row, M.col,
        [i \in 1..(M.row * M.col) |->
            LET r2 == RowOf(M, i)
                c  == ColOf(M, i)
            IN  IF r2 <= r0 THEN M.m[i]
                ELSE IF c <= r1 THEN ex0
                ELSE IF is_zero(At(M, r2, r1)) THEN M.m[i]
                ELSE LET piv == EDiv(At(M, r2, r1), At(M, r0, r1))
                     IN  ESub(M.m[i], EMul(piv, At(M, r0, c)))])

\* for (r1=0; (r1<n-1)&&(r0<m-1); ++r1) { ... } of gauss_elimination;
\* GaussStep is the loop body once pivot(r0, r1) has returned pv
RECURSIVE GaussLoop(_, _, _, _, _)
GaussStep(pv, det, r0, r1, sign) ==
    IF pv.indx = -1
    THEN IF det THEN [sign |-> 0, mat |-> pv.mat]
         ELSE GaussLoop(pv.mat, det, r0, r1 + 1, 0)
    ELSE GaussLoop(ZeroRightOf(GaussRows(pv.mat, r0, r1), det, r0), det,
                   r0 + 1, r1 + 1, IF pv.indx > 0 THEN -sign ELSE sign)
GaussLoop(M, det, r0, r1, sign) ==
    IF ~(r1 < M.col - 1 /\ r0 < M.row - 1) THEN [sign |-> sign, mat |-> M]
    ELSE GaussStep(pivot(M, r0, r1), det, r0, r1, sign)

\* matrix::gauss_elimination(det): [sign, mat], mat the receiver afterwards
gauss_elimination(M, det) == GaussLoop(M, det, 0, 0, 1)

\* a faulty row operation: the two products are added
DivFreeRows_Adds(M, r0, r1) ==
    Mat(M.row, M.col,
        [i \in 1..(M.row * M.col) |->
            IF RowOf(M, i) <= r0 THEN M.m[i]
            ELSE IF ColOf(M, i) <= r1 THEN ex0
            ELSE EAdd(EMul(At(M, r0, r1), M.m[i]),
                      EMul(At(M, RowOf(M, i), r1), At(M, r0, ColOf(M, i))))])

\* The loop over r2 of division_free_elimination, one simultaneous
\* assignment for the same reason as in GaussRows.
DivFreeRows(M, r0, r1) ==
    Mat(M.row, M.col,
        [i \in 1..(M.row * M.col) |->
            LET r2 == RowOf(M, i)
                c  == ColOf(M, i)
            IN  IF r2 <= r0 THEN M.m[i]
                ELSE IF c <= r1 THEN ex0
                ELSE ESub(EMul(At(M, r0, r1), M.m[i]),
                          EMul(At(M, r2, r1), At(M, r0, c)))])

\* the main loop of division_free_elimination; DivFreeStep is the loop
\* body once pivot(r0, r1) has returned pv
RECURSIVE DivFreeLoop(_, _, _, _, _)
DivFreeStep(pv, det, r0, r1, sign) ==
    IF pv.indx = -1
    THEN IF det THEN [sign |-> 0, mat |-> pv.mat]
         ELSE DivFreeLoop(pv.mat, det, r0, r1 + 1, 0)
    ELSE DivFreeLoop(ZeroRightOf(DivFreeRows(pv.mat, r0, r1), det, r0), det,
                     r0 + 1, r1 + 1, IF pv.indx > 0 THEN -sign ELSE sign)
DivFreeLoop(M, det, r0, r1, sign) ==
    IF ~(r1 < M.col - 1 /\ r0 < M.row - 1) THEN [sign |-> sign, mat |-> M]
    ELSE DivFreeStep(pivot(M, r0, r1), det, r0, r1, sign)

\* matrix::division_free_elimination(det)
division_free_elimination(M, det) == DivFreeLoop(M, det, 0, 0, 1)

\* the least common multiple of d and the denominators of t[i], t[i+1], ...
RECURSIVE CommonDenom(_, _, _)
CommonDenom(t, i, d) ==
    IF i > Len(t) THEN d
    ELSE CommonDenom(t, i + 1, (d * t[i][2]) \div GCD(d, t[i][2]))

\* numer() and denom() of x over its common denominator: of a plain number
\* held in lowest terms, and of a sum of rational multiples of symbols
denom(x) == IntEx(CommonDenom(x.t, 1, x.k[2]))
numer(x) == EScale(x, <<CommonDenom(x.t, 1, x.k[2]), 1>>)

\* divide(a, b, q, true) for a plain-number divisor b # 0: the quotient is
\* q = a / b and the call reports success
divide(a, b) == IF is_zero(a) THEN ex0 ELSE EDiv(a, b)

\* tmp_d's rows r0 and indx exchanged from column r1 on, when pivot moved
\* a row: if (indx>0) for (c=r1; c<n; ++c) tmp_d.m[n*indx+c].swap(tmp_d.m[n*r0+c])
SwapRowsFrom(M, r0, indx, r1) ==
    IF ~(indx > 0) THEN M
    ELSE Mat(M.row, M.col,
             [i \in 1..(M.row * M.col) |->
                 IF ColOf(M, i) < r1 THEN M.m[i]
                 ELSE IF RowOf(M, i) = r0 THEN At(M, indx, ColOf(M, i))
                 ELSE IF RowOf(M, i) = indx THEN At(M, r0, ColOf(M, i))
                 ELSE M.m[i]])

\* The loop over r2 of fraction_free_elimination, numerators: dividend_n
\* divided by divisor_n for c > r1, zero for c <= r1.  Both dividends are
\* formed from the old cells before either quotient is stored.
FracFreeRowsN(TN, TD, r0, r1, divisor_n) ==
    Mat(TN.row, TN.col,
        [i \in 1..(TN.row * TN.col) |->
            LET r2 == RowOf(TN, i)
                c  == ColOf(TN, i)
            IN  IF r2 <= r0 THEN TN.m[i]
                ELSE IF c <= r1 THEN ex0
                ELSE LET dividend_n ==
                           ESub(EMul(EMul(At(TN, r0, r1), TN.m[i]),
                                     EMul(At(TD, r2, r1), At(TD, r0, c))),
                                EMul(EMul(At(TN, r2, r1), At(TN, r0, c)),
                                     EMul(At(TD, r0, r1), TD.m[i])))
                     IN  divide(dividend_n, divisor_n)])

\* ... and denominators: dividend_d divided by divisor_d for c > r1
FracFreeRowsD(TD, r0, r1, divisor_d) ==
    Mat(TD.row, TD.col,
        [i \in 1..(TD.row * TD.col) |->
            LET r2 == RowOf(TD, i)
                c  == ColOf(TD, i)
            IN  IF r2 <= r0 \/ c <= r1 THEN TD.m[i]
                ELSE LET dividend_d ==
                           EMul(EMul(At(TD, r2, r1), At(TD, r0, c)),
                                EMul(At(TD, r0, r1), TD.m[i]))
                     IN  divide(dividend_d, divisor_d)])

\* determinant mode: row r0 becomes 0/1 in every column
ClearRow(M, det, r0, v) ==
    IF ~det THEN M
    ELSE Mat(M.row, M.col,
             [i \in 1..(M.row * M.col) |-> IF RowOf(M, i) = r0 THEN v ELSE M.m[i]])

\* the main loop of fraction_free_elimination; done = FALSE is the early
\* "return 0" of determinant mode, which skips the repopulation of *this
RECURSIVE FracFreeLoop(_, _, _, _, _, _, _, _)
\* the end of the loop body: divisor_n and divisor_d become the new cells
\* (r0, r1), then determinant mode clears row r0
FracFreeNext(TN, TD, det, r0, r1, sign) ==
    FracFreeLoop(ClearRow(TN, det, r0, ex0), ClearRow(TD, det, r0, ex1), det,
                 r0 + 1, r1 + 1, sign, At(TN, r0, r1), At(TD, r0, r1))
\* the loop over r2, on tmp_n and the tmp_d whose rows follow the pivot
FracFreeRows(TN, TD, det, r0, r1, sign, divisor_n, divisor_d) ==
    FracFreeNext(FracFreeRowsN(TN, TD, r0, r1, divisor_n),
                 FracFreeRowsD(TD, r0, r1, divisor_d), det, r0, r1, sign)
\* the loop body once tmp_n.pivot(r0, r1) has returned pv
FracFreeStep(pv, TN, TD, det, r0, r1, sign, divisor_n, divisor_d) ==
    IF pv.indx = -1
    THEN IF det THEN [sign |-> 0, tn |-> TN, td |-> TD, done |-> FALSE]
         ELSE FracFreeLoop(pv.mat, TD, det, r0, r1 + 1, 0, divisor_n, divisor_d)
    ELSE FracFreeRows(pv.mat, SwapRowsFrom(TD, r0, pv.indx, r1), det, r0, r1,
                      IF pv.indx > 0 THEN -sign ELSE sign, divisor_n, divisor_d)
FracFreeLoop(TN, TD, det, r0, r1, sign, divisor_n, divisor_d) ==
    IF ~(r1 < TN.col - 1 /\ r0 < TN.row - 1)
    THEN [sign |-> sign, tn |-> TN, td |-> TD, done |-> TRUE]
    ELSE FracFreeStep(pivot(TN, r0, r1), TN, TD, det, r0, r1, sign,
                      divisor_n, divisor_d)

\* tmp_n and tmp_d: the numerators and denominators of the cells
Numerators(M) == Mat(M.row, M.col, [i \in 1..(M.row * M.col) |-> numer(M.m[i])])
Denominators(M) == Mat(M.row, M.col, [i \in 1..(M.row * M.col) |-> denom(M.m[i])])

\* "repopulate *this matrix": m[i] = tmp_n[i] / tmp_d[i], which the early
\* return of determinant mode skips
Repopulate(M, e) ==
    IF ~e.done THEN [sign |-> 0, mat |-> M]
    ELSE [sign |-> e.sign,
          mat  |-> Mat(M.row, M.col,
                       [i \in 1..(M.row * M.col) |-> EDiv(e.tn.m[i], e.td.m[i])])]

\* matrix::fraction_free_elimination(det): [sign, mat]
fraction_free_elimination(M, det) ==
    IF M.row = 1 THEN [sign |-> 1, mat |-> M]
    ELSE Repopulate(M, FracFreeLoop(Numerators(M), Denominators(M), det,
                                    0, 0, 1, ex1, ex1))

\* bool check = divide(...); check &= divide(...); GINAC_ASSERT(check);
\* the macro is assert() in a build with DO_GINAC_ASSERT, which ends the
\* program, and an empty statement in every other build
AssertCheck(check, do_ginac_assert) ==
    IF ~check /\ do_ginac_assert THEN "abort" ELSE "continue"

\* ------------------------------------------- polynomials in one symbol
\* A polynomial in one symbol x with rational coefficients, in expanded
\* form: the sequence of its coefficients from the constant term on, the
\* last one nonzero; the zero polynomial is the empty sequence.
RECURSIVE PolyTrim(_)
PolyTrim(p) ==
    IF Len(p) > 0 /\ p[Len(p)][1] = 0 THEN PolyTrim(SubSeq(p, 1, Len(p) - 1))
    ELSE p
PolyCoef(p, i) == IF i <= Len(p) THEN p[i] ELSE R0
PolyLen(p, q) == IF Len(p) > Len(q) THEN Len(p) ELSE Len(q)
\* (p - q).expand()
PolySub(p, q) ==
    PolyTrim(AsSeq([i \in 1..PolyLen(p, q) |-> RSub(PolyCoef(p, i), PolyCoef(q, i))]))
\* (p * q).expand()
PolyMul(p, q) ==
    IF Len(p) = 0 \/ Len(q) = 0 THEN <<>>
    ELSE AsSeq([k \in 1..(Len(p) + Len(q) - 1) |->
                   LET s[i \in 0..Len(p)] ==
                           IF i = 0 THEN R0
                           ELSE IF k - i + 1 \in 1..Len(q)
                           THEN RAdd(s[i - 1], RMul(p[i], q[k - i + 1]))
                           ELSE s[i - 1]
                   IN  s[Len(p)]])
\* the constant polynomial 1 and the symbol x
poly1 == <<R1>>
polyx == <<R0, R1>>

\* long division of what is left of the dividend by b # 0: the leading
\* term of the rest is divided by the leading term of b until the rest
\* vanishes (the division is exact) or its degree falls below that of b
RECURSIVE PolyDivideLoop(_, _, _)
PolyDivideLoop(rest, b, q) ==
    IF Len(rest) = 0 THEN [check |-> TRUE, q |-> q]
    ELSE IF Len(rest) < Len(b) THEN [check |-> FALSE, q |-> q]
    ELSE LET co == RDiv(rest[Len(rest)], b[Len(b)])
             sh == Len(rest) - Len(b)
             term == AsSeq([i \in 1..(sh + 1) |-> IF i = sh + 1 THEN co ELSE R0])
         IN  PolyDivideLoop(PolySub(rest, PolyMul(term, b)), b,
                            PolySub(q, PolyMul(<<RNeg(R1)>>, term)))
\* bool divide(a, b, q, true) for polynomials a and b # 0: whether b divides
\* a exactly, and the quotient q then
PolyDivide(a, b) == PolyDivideLoop(a, b, <<>>)

\* -------------------- fraction-free elimination of rational functions
\* A cell n/d in normal form is the pair of its numerator and denominator
\* polynomials; tmp_n and tmp_d hold the two parts of every cell.
Frac(n, d) == [n |-> n, d |-> d]
PolyNumerators(M) == Mat(M.row, M.col, [i \in 1..(M.row * M.col) |-> M.m[i].n])
PolyDenominators(M) == Mat(M.row, M.col, [i \in 1..(M.row * M.col) |-> M.m[i].d])

\* tmp_n.pivot(r0, r1, true): the first row from r0 on whose cell of column
\* r1 does not expand to zero
RECURSIVE PolyFirstNonzeroRow(_, _, _)
PolyFirstNonzeroRow(M, k, co) ==
    IF k < M.row /\ Len(At(M, k, co)) = 0 THEN PolyFirstNonzeroRow(M, k + 1, co)
    ELSE k

\* a faulty cross product: the two products are added
PolyDividendN_Sum(TN, TD, r0, r1, r2, c) ==
    PolySub(PolyMul(PolyMul(At(TN, r0, r1), At(TN, r2, c)),
                    PolyMul(At(TD, r2, r1), At(TD, r0, c))),
            PolyMul(<<RNeg(R1)>>,
                    PolyMul(PolyMul(At(TN, r2, r1), At(TN, r0, c)),
                            PolyMul(At(TD, r0, r1), At(TD, r2, c)))))

\* dividend_n = (tmp_n(r0,r1)*tmp_n(r2,c)*tmp_d(r2,r1)*tmp_d(r0,c)
\*              -tmp_n(r2,r1)*tmp_n(r0,c)*tmp_d(r0,r1)*tmp_d(r2,c)).expand()
PolyDividendN(TN, TD, r0, r1, r2, c) ==
    PolySub(PolyMul(PolyMul(At(TN, r0, r1), At(TN, r2, c)),
                    PolyMul(At(TD, r2, r1), At(TD, r0, c))),
            PolyMul(PolyMul(At(TN, r2, r1), At(TN, r0, c)),
                    PolyMul(At(TD, r0, r1), At(TD, r2, c))))
\* dividend_d = (tmp_d(r2,r1)*tmp_d(r0,c)*tmp_d(r0,r1)*tmp_d(r2,c)).expand()
PolyDividendD(TD, r0, r1, r2, c) ==
    PolyMul(PolyMul(At(TD, r2, r1), At(TD, r0, c)),
            PolyMul(At(TD, r0, r1), At(TD, r2, c)))

\* the loop over r2 and c: every cell below row r0 and right of column r1
\* takes the two quotients, the cells up to column r1 of those rows a zero
\* numerator; check is the conjunction of what the divisions reported
PolyFracFreeRows(TN, TD, r0, r1, divisor_n, divisor_d) ==
    LET cells == 1..(TN.row * TN.col)
        inner(i) == RowOf(TN, i) > r0 /\ ColOf(TN, i) > r1
        qn == AsSeq([i \in cells |->
                  IF inner(i)
                  THEN PolyDivide(PolyDividendN(TN, TD, r0, r1, RowOf(TN, i),
                                                ColOf(TN, i)), divisor_n)
                  ELSE [check |-> TRUE,
                        q |-> IF RowOf(TN, i) > r0 THEN <<>> ELSE TN.m[i]]])
        qd == AsSeq([i \in cells |->
                  IF inner(i)
                  THEN PolyDivide(PolyDividendD(TD, r0, r1, RowOf(TN, i),
                                                ColOf(TN, i)), divisor_d)
                  ELSE [check |-> TRUE, q |-> TD.m[i]]])
    IN  [tn |-> Mat(TN.row, TN.col, [i \in cells |-> qn[i].q]),
         td |-> Mat(TD.row, TD.col, [i \in cells |-> qd[i].q]),
         check |-> \A i \in cells : qn[i].check /\ qd[i].check]

\* the main loop of fraction_free_elimination on the two grids; check is
\* FALSE as soon as a division was not exact, which ends the run here
RECURSIVE PolyFracFreeLoop(_, _, _, _, _, _, _, _)
\* the loop body once the pivot pv is found and the rows are combined
PolyFracFreeNext(pv, rows, det, r0, r1, sign) ==
    IF ~rows.check
    THEN [sign |-> sign, tn |-> rows.tn, td |-> rows.td, done |-> TRUE,
          check |-> FALSE]
    ELSE PolyFracFreeLoop(ClearRow(rows.tn, det, r0, <<>>),
                          ClearRow(rows.td, det, r0, poly1), det, r0 + 1, r1 + 1,
                          IF pv.indx > 0 THEN -sign ELSE sign,
                          At(rows.tn, r0, r1), At(rows.td, r0, r1))
PolyFracFreeStep(pv, TN, TD, det, r0, r1, sign, divisor_n, divisor_d) ==
    IF pv.indx = -1
    THEN IF det THEN [sign |-> 0, tn |-> TN, td |-> TD, done |-> FALSE,
                      check |-> TRUE]
         ELSE PolyFracFreeLoop(pv.mat, TD, det, r0, r1 + 1, 0, divisor_n, divisor_d)
    ELSE PolyFracFreeNext(pv, PolyFracFreeRows(pv.mat,
                                               SwapRowsFrom(TD, r0, pv.indx, r1),
                                               r0, r1, divisor_n, divisor_d),
                          det, r0, r1, sign)
PolyFracFreeLoop(TN, TD, det, r0, r1, sign, divisor_n, divisor_d) ==
    IF ~(r1 < TN.col - 1 /\ r0 < TN.row - 1)
    THEN [sign |-> sign, tn |-> TN, td |-> TD, done |-> TRUE, check |-> TRUE]
    ELSE PolyFracFreeStep(PivotAt(TN, r0, PolyFirstNonzeroRow(TN, r0, r1)),
                          TN, TD, det, r0, r1, sign, divisor_n, divisor_d)

\* matrix::fraction_free_elimination(det) on a matrix of rational
\* functions: [sign, mat, check]; the cells of mat are the pairs tmp_n,
\* tmp_d, and the early return of determinant mode leaves *this as it was
PolyRepopulate(M, e) ==
    [sign |-> e.sign, check |-> e.check,
     mat |-> IF ~e.done THEN M
             ELSE Mat(M.row, M.col,
                      [i \in 1..(M.row * M.col) |-> Frac(e.tn.m[i], e.td.m[i])])]
PolyFractionFree(M, det) ==
    IF M.row = 1 THEN [sign |-> 1, check |-> TRUE, mat |-> M]
    ELSE PolyRepopulate(M, PolyFracFreeLoop(PolyNumerators(M), PolyDenominators(M),
                                            det, 0, 0, 1, poly1, poly1))

\* ------------------------------------------------- results and failures
\* a returned matrix, or the exception that left the call
Ok(M) == [kind |-> "ok", mat |-> M]
Fail(kind) == [kind |-> kind, mat |-> Mat(0, 0, <<>>)]

\* ---------------------------------------------------------- construction
\* matrix::matrix(): the 1 x 1 zero matrix
matrix_default == Mat(1, 1, <<ex0>>)

\* a faulty filling: a list as long as the matrix or longer loses the cell
\* that would fill the last place (the test reads y >= r - 1 past the first
\* row)
RECURSIVE ListFill_StopsEarly(_, _, _, _, _)
ListFill_StopsEarly(cells, r, c, l, i) ==
    IF i >= Len(l) THEN cells
    ELSE IF i >= r * c - 1 THEN cells
    ELSE ListFill_StopsEarly([cells EXCEPT ![(i \div c) * c + (i % c) + 1] = l[i + 1]],
                             r, c, l, i + 1)

\* for (i=0; i<l.nops(); i++) { x = i % c; y = i / c; if (y >= r) break;
\* m[y*c+x] = l.op(i); }  for c > 0
RECURSIVE ListFill(_, _, _, _, _)
ListFill(cells, r, c, l, i) ==
    IF i >= Len(l) THEN cells
    ELSE IF i \div c >= r THEN cells
    ELSE ListFill([cells EXCEPT ![(i \div c) * c + (i % c) + 1] = l[i + 1]],
                  r, c, l, i + 1)

\* matrix::matrix(unsigned r, unsigned c, const lst & l).  With c = 0 and a
\* list that is not empty the first i % c divides by zero, which has no
\* defined outcome: no matrix is obtained
matrix_lst(r, c, l) ==
    IF c = 0 /\ Len(l) > 0 THEN Fail("Undefined")
    ELSE Ok(Mat(r, c, ListFill(ZeroMatrix(r, c).m, r, c, l, 0)))

\* an archive node of a matrix: the properties "row" and "col" (-1 when the
\* node has none) and the sequence of its properties "m"
ArchiveNode(row, col, cells) == [row |-> row, col |-> col, m |-> cells]

\* matrix::matrix(const archive_node & n, const lst & sym_lst)
matrix_archive(n) ==
    IF n.row = -1 \/ n.col = -1 THEN Fail("UnknownDimensions")
    ELSE Ok(Mat(n.row, n.col, n.m))

\* the longest of the lists of the list l
RECURSIVE MaxNops(_, _, _)
MaxNops(l, i, cols) ==
    IF i >= Len(l) THEN cols
    ELSE MaxNops(l, i + 1, IF Len(l[i + 1]) > cols THEN Len(l[i + 1]) ELSE cols)

\* lst_to_matrix(const lst & l): a row for every list of l, as many columns
\* as the longest of them has elements, short rows filled with zeros
lst_to_matrix(l) ==
    Mat(Len(l), MaxNops(l, 0, 0),
        [k \in 1..(Len(l) * MaxNops(l, 0, 0)) |->
            IF Len(l[((k - 1) \div MaxNops(l, 0, 0)) + 1]) > (k - 1) % MaxNops(l, 0, 0)
            THEN l[((k - 1) \div MaxNops(l, 0, 0)) + 1][((k - 1) % MaxNops(l, 0, 0)) + 1]
            ELSE ex0])

\* diag_matrix(const lst & l): the square matrix with l on its diagonal
diag_matrix(l) ==
    Mat(Len(l), Len(l),
        [k \in 1..(Len(l) * Len(l)) |->
            IF (k - 1) \div Len(l) = (k - 1) % Len(l)
            THEN l[((k - 1) \div Len(l)) + 1] ELSE ex0])

\* determinant_algo / solve_algo
Algos == {"automatic", "gauss", "divfree", "bareiss", "laplace"}
SolveAlgos == {"automatic", "gauss", "divfree", "bareiss"}

\* ---------------------------------------------------------------- solve
\* the augmented matrix of A with rhs attached to the right
Augmented(A, rhs) ==
    LET n == A.col
        p == rhs.col
    IN  Mat(A.row, n + p,
            [i \in 1..(A.row * (n + p)) |->
                LET r == (i - 1) \div (n + p)
                    c == (i - 1) % (n + p)
                IN  IF c < n THEN At(A, r, c) ELSE At(rhs, r, c - n)])

\* the heuristics of solve(): bareiss, divfree for m < 3, gauss when every
\* cell of the augmented matrix is a plain number
SolveAlgo(aug, algo) ==
    IF algo # "automatic" THEN algo
    ELSE IF \A i \in 1..Len(aug.m) : is_numeric(aug.m[i]) THEN "gauss"
    ELSE IF aug.row < 3 THEN "divfree"
    ELSE "bareiss"

\* "Eliminate the augmented matrix": switch(algo)
EliminateBy(aug, algo) ==
    IF algo = "gauss" THEN gauss_elimination(aug, FALSE).mat
    ELSE IF algo = "divfree" THEN division_free_elimination(aug, FALSE).mat
    ELSE fraction_free_elimination(aug, FALSE).mat
Eliminate(aug, algo) == EliminateBy(aug, SolveAlgo(aug, algo))

\* while ((fnz<=n) && aug.m[r*(n+p)+(fnz-1)].is_zero()) ++fnz;
RECURSIVE FirstNonzeroInRow(_, _, _, _)
FirstNonzeroInRow(aug, r, n, fnz) ==
    IF fnz <= n /\ is_zero(At(aug, r, fnz - 1))
    THEN FirstNonzeroInRow(aug, r, n, fnz + 1)
    ELSE fnz

\* e -= aug.m[r*(n+p)+c]*sol.m[c*p+co] for c = fnz .. n-1
RECURSIVE SubtractKnown(_, _, _, _, _, _)
SubtractKnown(e, aug, r, sol, c, n) ==
    IF c >= n THEN e
    ELSE SubtractKnown(ESub(e, EMul(At(aug, r, c), sol[c + 1])), aug, r, sol, c + 1, n)

\* The loop "for (int r=m-1; r>=0; --r)" of solve() for the rhs column co.
\* sol is column co of the solution (cell c at index c+1), las is
\* last_assigned_sol.  [ok, sol]; ok = FALSE is the throw of
\* "inconsistent linear system".
RECURSIVE BackSubstitute(_, _, _, _, _, _, _)
\* a faulty loop bound: c<=las-1 hands the unknown assigned last a symbol
AssignFree_Through(vars, n, co, sol, from, las) ==
    AsSeq([c \in 1..n |-> IF from <= c - 1 /\ c - 1 <= las - 1
                          THEN At(vars, c - 1, co) ELSE sol[c]])
\* for (c=from; c<las-1; ++c) sol(c,co) = vars.m[c*p+co]: the unknowns
\* between two pivots (from = fnz), or left of the first one (from = 0),
\* take the caller's symbols
AssignFree(vars, n, co, sol, from, las) ==
    AsSeq([c \in 1..n |-> IF from <= c - 1 /\ c - 1 < las - 1
                          THEN At(vars, c - 1, co) ELSE sol[c]])
\* sol(fnz-1,co) = (e / aug.m[r*(n+p)+(fnz-1)]).normal() once the free
\* unknowns of the row are assigned
AssignPivot(aug, vars, n, co, r, fnz, free) ==
    BackSubstitute(aug, vars, n, co, r - 1,
                   [free EXCEPT ![fnz] =
                       EDiv(SubtractKnown(At(aug, r, n + co), aug, r, free, fnz, n),
                            At(aug, r, fnz - 1))],
                   fnz)
\* a faulty loop body: a row of zero coefficients is passed over whatever
\* its right-hand side
SolveRow_NoCheck(aug, vars, n, co, r, sol, las, fnz) ==
    IF fnz > n THEN BackSubstitute(aug, vars, n, co, r - 1, sol, las)
    ELSE AssignPivot(aug, vars, n, co, r, fnz,
                     AssignFree(vars, n, co, sol, fnz, las))
\* the loop body for row r, whose first nonzero coefficient is number fnz
SolveRow(aug, vars, n, co, r, sol, las, fnz) ==
    IF fnz > n
    THEN IF ~is_zero(At(aug, r, n + co)) THEN [ok |-> FALSE, sol |-> sol]
         ELSE BackSubstitute(aug, vars, n, co, r - 1, sol, las)
    ELSE AssignPivot(aug, vars, n, co, r, fnz,
                     AssignFree(vars, n, co, sol, fnz, las))
BackSubstitute(aug, vars, n, co, r, sol, las) ==
    IF r < 0 THEN [ok |-> TRUE, sol |-> AssignFree(vars, n, co, sol, 0, las)]
    ELSE SolveRow(aug, vars, n, co, r, sol, las, FirstNonzeroInRow(aug, r, n, 1))

\* the n x p solution out of its p columns, or the exception one of them threw
Solution(cols, n, p) ==
    IF \E co \in 1..p : ~cols[co].ok THEN Fail("InconsistentSystem")
    ELSE Ok(Mat(n, p, [i \in 1..(n * p) |->
                          cols[((i - 1) % p) + 1].sol[((i - 1) \div p) + 1]]))
\* "assemble the solution matrix": for (co=0; co<p; ++co) { ... } on the
\* eliminated augmented matrix
Assemble(aug, vars, m, n, p) ==
    Solution(AsSeq([co \in 1..p |->
                 BackSubstitute(aug, vars, n, co - 1, m - 1,
                                AsSeq([c \in 1..n |-> ex0]), n + 1)]), n, p)
\* a faulty order of the syntax checks: the cells of vars are looked at
\* before the shapes
solve_SymbolsFirst(A, vars, rhs, algo) ==
    IF \E i \in 1..Len(vars.m) : ~is_symbol(vars.m[i])
    THEN Fail("InvalidArgument")
    ELSE IF rhs.row # A.row \/ vars.row # A.col \/ vars.col # rhs.col
    THEN Fail("DimensionMismatch")
    ELSE Assemble(Eliminate(Augmented(A, rhs), algo), vars, A.row, A.col, rhs.col)

\* matrix::solve(vars, rhs, algo) on the receiver A
solve(A, vars, rhs, algo) ==
    IF rhs.row # A.row \/ vars.row # A.col \/ vars.col # rhs.col
    THEN Fail("DimensionMismatch")
    ELSE IF \E i \in 1..(A.col * rhs.col) : ~is_symbol(vars.m[i])
    THEN Fail("InvalidArgument")
    ELSE Assemble(Eliminate(Augmented(A, rhs), algo), vars, A.row, A.col, rhs.col)

\* -------------------------------------------------------------- inverse
\* the grid of fresh symbols inverse() hands to solve()
FreshVars(r, c) == Mat(r, c, [i \in 1..(r * c) |-> Sym(i)])

\* a faulty handler: the exception of solve() is rethrown as it came
Translate_Rethrow(sol) == sol

\* catch (const std::runtime_error & e): "inconsistent linear system"
\* becomes "matrix::inverse(): singular matrix", anything else is rethrown
Translate(sol) ==
    IF sol.kind = "InconsistentSystem" THEN Fail("SingularMatrix") ELSE sol
\* matrix::inverse()
inverse(A) ==
    IF A.row # A.col THEN Fail("NonSquareMatrix")
    ELSE Translate(solve(A, FreshVars(A.row, A.col), IdentityMatrix(A.row),
                         "automatic"))

\* a faulty sum: the shapes are refused only when both the rows and the
\* columns differ
add_ChecksBoth(A, B) ==
    IF A.col # B.col /\ A.row # B.row THEN Fail("DimensionMismatch")
    ELSE Ok(Mat(A.row, A.col,
                [i \in 1..(A.row * A.col) |->
                    IF i <= Len(B.m) THEN EAdd(A.m[i], B.m[i]) ELSE A.m[i]]))

\* matrix::add(const matrix & other): (*i) += (*ci) over the cells
add(A, B) ==
    IF A.col # B.col \/ A.row # B.row THEN Fail("DimensionMismatch")
    ELSE Ok(Mat(A.row, A.col, [i \in 1..Len(A.m) |-> EAdd(A.m[i], B.m[i])]))

\* matrix::sub(const matrix & other): (*i) -= (*ci) over the cells
sub(A, B) ==
    IF A.col # B.col \/ A.row # B.row THEN Fail("DimensionMismatch")
    ELSE Ok(Mat(A.row, A.col, [i \in 1..Len(A.m) |-> ESub(A.m[i], B.m[i])]))

\* a faulty product: the first zero left factor ends the sum of the cell
RECURSIVE MulCell_BreaksOnZero(_, _, _, _, _, _)
MulCell_BreaksOnZero(A, B, r1, r2, c, acc) ==
    IF c >= A.col THEN acc
    ELSE IF is_zero(At(A, r1, c)) THEN acc
    ELSE MulCell_BreaksOnZero(A, B, r1, r2, c + 1,
                              EAdd(acc, EMul(At(A, r1, c), At(B, c, r2))))

\* a faulty product: the accumulator is not reset between the cells of a
\* row, so that a cell also holds the sums of the cells to its left
RECURSIVE MulCell_RunningSum(_, _, _, _, _, _)
MulCell_RunningSum(A, B, r1, r2, c, acc) ==
    IF c >= A.col
    THEN IF r2 = 0 THEN acc ELSE MulCell_RunningSum(A, B, r1, r2 - 1, 0, acc)
    ELSE IF is_zero(At(A, r1, c)) THEN MulCell_RunningSum(A, B, r1, r2, c + 1, acc)
    ELSE MulCell_RunningSum(A, B, r1, r2, c + 1,
                            EAdd(acc, EMul(At(A, r1, c), At(B, c, r2))))
mul_RunningSum(A, B) ==
    IF A.col # B.row THEN Fail("DimensionMismatch")
    ELSE Ok(Mat(A.row, B.col,
                [i \in 1..(A.row * B.col) |->
                    MulCell_RunningSum(A, B, (i - 1) \div B.col, (i - 1) % B.col,
                                       0, ex0)]))

\* ------------------------------------------------------ matrix products
\* prod[r1*other.col+r2] += (m[r1*col+c] * other.m[c*other.col+r2]).expand()
\* for c = 0 .. col-1, skipping every c whose left factor is zero
RECURSIVE MulCell(_, _, _, _, _, _)
MulCell(A, B, r1, r2, c, acc) ==
    IF c >= A.col THEN acc
    ELSE IF is_zero(At(A, r1, c)) THEN MulCell(A, B, r1, r2, c + 1, acc)
    ELSE MulCell(A, B, r1, r2, c + 1, EAdd(acc, EMul(At(A, r1, c), At(B, c, r2))))

\* matrix::mul(const matrix & other)
mul(A, B) ==
    IF A.col # B.row THEN Fail("DimensionMismatch")
    ELSE Ok(Mat(A.row, B.col,
                [i \in 1..(A.row * B.col) |->
                    MulCell(A, B, (i - 1) \div B.col, (i - 1) % B.col, 0, ex0)]))

\* a scalar whose products do not commute (a noncommutative object of the
\* expression engine); every value of the ring of the model commutes
NonCommutative == [k |-> R1, t |-> <<>>, nc |-> TRUE]
return_type(x) == IF x = NonCommutative THEN "noncommutative" ELSE "commutative"

\* a faulty scaling: the loop over the columns stops one column early, and
\* the last column keeps the zero the product was created with
mul_scalar_StopsEarly(A, other) ==
    IF return_type(other) # "commutative" THEN Fail("NonCommutativeScalar")
    ELSE Ok(Mat(A.row, A.col,
                [i \in 1..(A.row * A.col) |->
                    IF ColOf(A, i) < A.col - 1 THEN EMul(A.m[i], other) ELSE ex0]))

\* matrix::mul_scalar(const ex & other): prod[r*col+c] = m[r*col+c] * other
mul_scalar(A, other) ==
    IF return_type(other) # "commutative" THEN Fail("NonCommutativeScalar")
    ELSE Ok(Mat(A.row, A.col,
                [i \in 1..(A.row * A.col) |-> EMul(A.m[i], other)]))

\* ------------------------------------------------------- element access
\* what an access by (ro, co) gives: the cell and the 0-based position of
\* the backing sequence it refers to, or the exception that left the call
\* (pos is -1 when no position was referred to)
OkCell(v, pos) == [kind |-> "ok", val |-> v, pos |-> pos]
FailCell(kind) == [kind |-> kind, val |-> ex0, pos |-> -1]

\* a faulty test of the indices: an index equal to the dimension passes
operator_call_OffByOne(M, ro, co) ==
    IF ro > M.row \/ co > M.col THEN FailCell("IndexOutOfRange")
    ELSE OkCell(IF ro * M.col + co < Len(M.m) THEN M.m[ro * M.col + co + 1] ELSE ex0,
                ro * M.col + co)

\* matrix::operator() (unsigned ro, unsigned co), for reading and for
\* writing: the reference to m[ro*col+co]
operator_call(M, ro, co) ==
    IF ro >= M.row \/ co >= M.col THEN FailCell("IndexOutOfRange")
    ELSE OkCell(M.m[ro * M.col + co + 1], ro * M.col + co)

\* the matrix after the assignment M(ro, co) = v through the reference the
\* access gave (ref), unchanged when the access threw
Assigned(M, ref, v) ==
    IF ref.kind # "ok" THEN M
    ELSE Mat(M.row, M.col,
             [i \in 1..Len(M.m) |-> IF i = ref.pos + 1 THEN v ELSE M.m[i]])

\* a faulty transpose: the cells are moved but the shape is kept
transpose_KeepsShape(A) ==
    Mat(A.row, A.col,
        [i \in 1..(A.col * A.row) |->
            A.m[((i - 1) % A.row) * A.col + ((i - 1) \div A.row) + 1]])

\* matrix::transpose(): trans[r*rows+c] = m[c*cols+r], shape cols x rows
transpose(A) ==
    Mat(A.col, A.row,
        [i \in 1..(A.col * A.row) |->
            LET r == (i - 1) \div A.row
                c == (i - 1) % A.row
            IN  A.m[c * A.col + r + 1]])

\* a returned ring element, or the exception that left the call
OkEx(e) == [kind |-> "ok", val |-> e]
FailEx(kind) == [kind |-> kind, val |-> ex0]

RECURSIVE DiagSum(_, _, _)
DiagSum(A, r, tr) ==
    IF r >= A.col THEN tr ELSE DiagSum(A, r + 1, EAdd(tr, At(A, r, r)))

\* matrix::trace()
trace(A) ==
    IF A.row # A.col THEN FailEx("NonSquareMatrix")
    ELSE OkEx(DiagSum(A, 0, ex0))

\* ------------------------------------------------------------------ pow
\* mod(k, b) of two non-negative integers, and the loop
\* while (b.compare(k)<=0) { b *= 2; r = mod(k,b); ... } of pow()
RECURSIVE PowLoop(_, _, _, _)
\* a faulty loop: the test of the remainder is inverted
PowLoop_InvertedTest(result, prod, b, k) ==
    IF ~(b <= k) THEN result
    ELSE LET b2 == b * 2
             r  == k % b2
             k2 == IF r # 0 THEN k - r ELSE k
             result2 == IF r = 0 THEN mul(result, prod).mat ELSE result
             prod2 == IF b2 <= k2 THEN mul(prod, prod).mat ELSE prod
         IN  PowLoop(result2, prod2, b2, k2)
PowLoop(result, prod, b, k) ==
    IF ~(b <= k) THEN result
    ELSE LET b2 == b * 2
             r  == k % b2
             k2 == IF r # 0 THEN k - r ELSE k
             result2 == IF r # 0 THEN mul(result, prod).mat ELSE result
             prod2 == IF b2 <= k2 THEN mul(prod, prod).mat ELSE prod
         IN  PowLoop(result2, prod2, b2, k2)

\* the loop on A = this->inverse() and k = -expn; an exception of
\* inverse() leaves pow()
PowOfInverse(inv, k) ==
    IF inv.kind # "ok" THEN inv
    ELSE Ok(PowLoop(IdentityMatrix(inv.mat.row), inv.mat, 1, k))
\* matrix::pow(const ex & expn)
pow(A, expn) ==
    IF A.col # A.row THEN Fail("NonSquareMatrix")
    ELSE IF ~(is_numeric(expn) /\ is_integer(expn)) THEN Fail("Unsupported")
    ELSE IF is_negative(expn) THEN PowOfInverse(inverse(A), -expn.k[1])
    ELSE Ok(PowLoop(IdentityMatrix(A.row), A, 1, expn.k[1]))

\* ------------------------------------------------------ minor expansion
\* A[Mkey] of std::map: the stored minor, or a zero that the lookup inserts
MapGet(A, key) == IF key \in DOMAIN A THEN A[key] ELSE ex0
MapTouch(A, key) == IF key \in DOMAIN A THEN A ELSE A @@ (key :> ex0)
\* B.insert(Rmap_value(Pkey, det)): an existing key keeps its value
MapInsert(B, key, v) == IF key \in DOMAIN B THEN B ELSE B @@ (key :> v)

\* Mkey: Pkey without its element number r (0-based)
WithoutIndex(Pkey, r) ==
    AsSeq([i \in 1..(Len(Pkey) - 1) |-> IF i - 1 < r THEN Pkey[i] ELSE Pkey[i + 1]])

\* for (r=0; r<n-c; ++r) { ... det -=/+= m[Pkey[r]*n+c]*A[Mkey]; }
RECURSIVE MinorSum(_, _, _, _, _, _, _)
MinorSum(M, n, c, Pkey, r, A, det) ==
    IF r >= n - c THEN [det |-> det, A |-> A]
    ELSE IF is_zero(M.m[Pkey[r + 1] * n + c + 1])
    THEN MinorSum(M, n, c, Pkey, r + 1, A, det)
    ELSE LET Mkey == WithoutIndex(Pkey, r)
             term == EMul(M.m[Pkey[r + 1] * n + c + 1], MapGet(A, Mkey))
             det2 == IF r % 2 = 1 THEN ESub(det, term) ELSE EAdd(det, term)
         IN  MinorSum(M, n, c, Pkey, r + 1, MapTouch(A, Mkey), det2)

\* a faulty counter: only the last index moves, and the loop ends as soon
\* as that index has run out
FlipCounter_NoCarry(Pkey, fc, c) ==
    IF Pkey[fc] + 1 < fc + c
    THEN [Pkey |-> [Pkey EXCEPT ![fc] = Pkey[fc] + 1], fc |-> fc]
    ELSE [Pkey |-> [Pkey EXCEPT ![fc] = Pkey[fc] + 1], fc |-> 0]

\* for (fc=n-c; fc>0; --fc) { ++Pkey[fc-1]; if (Pkey[fc-1]<fc+c) break; }
RECURSIVE FlipCounter(_, _, _)
FlipCounter(Pkey, fc, c) ==
    IF fc <= 0 THEN [Pkey |-> Pkey, fc |-> 0]
    ELSE LET P2 == [Pkey EXCEPT ![fc] = Pkey[fc] + 1]
         IN  IF P2[fc] < fc + c THEN [Pkey |-> P2, fc |-> fc]
             ELSE FlipCounter(P2, fc - 1, c)

\* if (fc<n-c && fc>0) for (j=fc; j<n-c; ++j) Pkey[j] = Pkey[j-1]+1;
ResetTail(Pkey, fc, n, c) ==
    IF fc < n - c /\ fc > 0
    THEN AsSeq([i \in 1..Len(Pkey) |->
                   IF i - 1 >= fc THEN Pkey[fc] + (i - fc) ELSE Pkey[i]])
    ELSE Pkey

\* the do { ... } while(fc) loop of one column step c
RECURSIVE SubsetLoop(_, _, _, _, _, _)
\* if (!det.is_zero()) B.insert(...), then the counter f flipped from Pkey
\* decides whether the loop goes on; s is the minor just summed
SubsetStep(M, n, c, Pkey, B, s, f) ==
    IF ~is_zero(s.det)
    THEN IF f.fc # 0
         THEN SubsetLoop(M, n, c, ResetTail(f.Pkey, f.fc, n, c), s.A,
                         MapInsert(B, Pkey, s.det))
         ELSE [det |-> s.det, B |-> MapInsert(B, Pkey, s.det)]
    ELSE IF f.fc # 0
         THEN SubsetLoop(M, n, c, ResetTail(f.Pkey, f.fc, n, c), s.A, B)
         ELSE [det |-> s.det, B |-> B]
SubsetLoop(M, n, c, Pkey, A, B) ==
    SubsetStep(M, n, c, Pkey, B, MinorSum(M, n, c, Pkey, 0, A, ex0),
               FlipCounter(Pkey, n - c, c))

\* for (int c=n-2; c>=0; --c) { ...; A = B; B.clear(); }
RECURSIVE ColumnLoop(_, _, _, _, _)
\* "change the role of A and B": s holds the B and the det of column c
ColumnNext(M, n, c, s) == ColumnLoop(M, n, c - 1, s.B, s.det)
ColumnLoop(M, n, c, A, det) ==
    IF c < 0 THEN det
    ELSE ColumnNext(M, n, c,
             SubsetLoop(M, n, c, AsSeq([i \in 1..(n - c) |-> i - 1]), A, <<>>))

\* matrix::determinant_minor()
determinant_minor(M) ==
    LET n == M.col
        m == M.m
        P(a, b, c) == EMul(EMul(m[a + 1], m[b + 1]), m[c + 1])
    IN  IF n = 1 THEN m[1]
        ELSE IF n = 2 THEN ESub(EMul(m[1], m[4]), EMul(m[3], m[2]))
        ELSE IF n = 3
        THEN ESub(EAdd(EAdd(ESub(ESub(P(0, 4, 8), P(0, 5, 7)), P(1, 3, 8)),
                            P(2, 3, 7)), P(1, 5, 6)), P(2, 4, 6))
        ELSE ColumnLoop(M, n, n - 2,
                        [key \in {<<r>> : r \in 0..(n - 1)} |-> m[n * (key[1] + 1)]],
                        ex0)

\* faulty exchange of the maps: B is not cleared
NextColumnMaps_KeepsB(Bmap) == [A |-> Bmap, B |-> Bmap]

\* "next column, so change the role of A and B": A = B; B.clear();
NextColumnMaps(Bmap) == [A |-> Bmap, B |-> <<>>]

\* "initialize A with last column": A.insert(Rmap_value(Pkey, m[n*(r+1)-1]))
\* for every row r, a zero cell included
LastColumnMap(M) ==
    [key \in {<<r>> : r \in 0..(M.col - 1)} |-> M.m[M.col * (key[1] + 1)]]

\* Pkey at the head of a column step: for (i=0; i<n-c; ++i) Pkey.push_back(i)
FirstPkey(n, c) == AsSeq([i \in 1..(n - c) |-> i - 1])

\* ---------------------------------------------------------- determinant
\* number of zeros in column c
ColumnZeros(A, c) == Cardinality({r \in 0..(A.row - 1) : is_zero(At(A, r, c))})

\* sort(c_zeros.begin(), c_zeros.end()) on the pairs (zeros, column): the
\* columns in ascending order of zero count, ties by column number
pre_sort(A) ==
    LET before(a, b) == \/ ColumnZeros(A, a) < ColumnZeros(A, b)
                        \/ ColumnZeros(A, a) = ColumnZeros(A, b) /\ a < b
        rank(c) == Cardinality({a \in 0..(A.col - 1) : before(a, c)})
    IN  AsSeq([k \in 1..A.col |-> CHOOSE c \in 0..(A.col - 1) : rank(c) = k - 1])

\* permutation_sign(first, last) of a sequence of distinct numbers: the
\* parity of its inversion count
permutation_sign(s) ==
    LET inv == Cardinality({<<i, j>> \in (1..Len(s)) \X (1..Len(s)) :
                               i < j /\ s[i] > s[j]})
    IN  IF inv % 2 = 0 THEN 1 ELSE -1

\* result[r*col+c] = m[r*col+pre_sort[c]]
SortedColumns(A, ps) ==
    Mat(A.row, A.col,
        [i \in 1..(A.row * A.col) |-> At(A, RowOf(A, i), ps[ColOf(A, i) + 1])])

\* det *= tmp.m[d*col+d] for d = 0 .. row-1
RECURSIVE DiagProduct(_, _, _)
DiagProduct(T, d, det) ==
    IF d >= T.row THEN det ELSE DiagProduct(T, d + 1, EMul(det, At(T, d, d)))

\* a faulty removal of the slag: one division by each pivot, whatever the
\* number of steps that multiplied it in
RECURSIVE DivideSlag_OncePerPivot(_, _, _, _)
DivideSlag_OncePerPivot(T, d, j, det) ==
    IF d >= T.row - 2 THEN det
    ELSE DivideSlag_OncePerPivot(T, d + 1, 0, EDiv(det, At(T, d, d)))

\* "factor out accumulated bogus slag":
\* for (d=0; d<row-2; ++d) for (j=0; j<row-d-2; ++j) det = det/tmp.m[d*col+d]
RECURSIVE DivideSlag(_, _, _, _)
DivideSlag(T, d, j, det) ==
    IF d >= T.row - 2 THEN det
    ELSE IF j >= T.row - d - 2 THEN DivideSlag(T, d + 1, 0, det)
    ELSE DivideSlag(T, d, j + 1, EDiv(det, At(T, d, d)))

\* a faulty order of the heuristics: the test for a sparse matrix comes
\* last and overrides the choice made for a numeric matrix
DeterminantAlgo_SparseLast(A, algo) ==
    LET sparse_count == Cardinality({i \in 1..Len(A.m) : ~is_zero(A.m[i])})
        numeric_flag == \A i \in 1..Len(A.m) : is_numeric(A.m[i])
        numeric == IF numeric_flag THEN "gauss" ELSE "laplace"
        sparse == IF A.row > 3 /\ 5 * sparse_count <= A.row * A.col
                  THEN "bareiss" ELSE numeric
    IN  IF algo = "automatic" THEN sparse ELSE algo

\* the heuristics of determinant(), in case it has to decide
\* (algo == determinant_algo::automatic): algo = laplace; then
\* if (row>3 && 5*sparse_count<=row*col) algo = bareiss; then
\* if (numeric_flag) algo = gauss, overriding any prior decision
DeterminantAlgo(A, algo) ==
    LET sparse_count == Cardinality({i \in 1..Len(A.m) : ~is_zero(A.m[i])})
        numeric_flag == \A i \in 1..Len(A.m) : is_numeric(A.m[i])
        sparse == IF A.row > 3 /\ 5 * sparse_count <= A.row * A.col
                  THEN "bareiss" ELSE "laplace"
        numeric == IF numeric_flag THEN "gauss" ELSE sparse
    IN  IF algo = "automatic" THEN numeric ELSE algo

\* case determinant_algo::gauss, on e = tmp.gauss_elimination(true)
GaussDet(e) == EMul(IntEx(e.sign), DiagProduct(e.mat, 0, ex1))
\* case determinant_algo::bareiss: sign * tmp.m[row*col-1]
BareissDet(e) == EMul(IntEx(e.sign), e.mat.m[e.mat.row * e.mat.col])
\* case determinant_algo::divfree: if (sign==0) return 0, else the last
\* cell with the slag divided out
DivFreeDet(e) ==
    IF e.sign = 0 THEN ex0
    ELSE EMul(IntEx(e.sign), DivideSlag(e.mat, 0, 0, e.mat.m[e.mat.row * e.mat.col]))
\* case determinant_algo::laplace, on the column order ps of the presort
LaplaceDet(A, ps) ==
    EMul(IntEx(permutation_sign(ps)), determinant_minor(SortedColumns(A, ps)))

\* switch(algo) of determinant()
DeterminantBy(A, a) ==
    IF a = "gauss" THEN GaussDet(gauss_elimination(A, TRUE))
    ELSE IF a = "bareiss" THEN BareissDet(fraction_free_elimination(A, TRUE))
    ELSE IF a = "divfree" THEN DivFreeDet(division_free_elimination(A, TRUE))
    ELSE LaplaceDet(A, pre_sort(A))

\* a faulty order of the tests: the shortcut for one row comes first
determinant_ShortcutFirst(A, algo) ==
    IF A.row = 1 THEN OkEx(A.m[1])
    ELSE IF A.row # A.col THEN FailEx("NonSquareMatrix")
    ELSE OkEx(DeterminantBy(A, DeterminantAlgo(A, algo)))

\* matrix::determinant(unsigned algo)
determinant(A, algo) ==
    IF A.row # A.col THEN FailEx("NonSquareMatrix")
    ELSE IF A.row = 1 THEN OkEx(A.m[1])
    ELSE OkEx(DeterminantBy(A, DeterminantAlgo(A, algo)))

\* ------------------------------------------------- form of the result
\* The operations determinant() applies to the value it returns, innermost
\* first, for the algorithm a that runs and the statistic normal_flag (some
\* entry is a rational function and no polynomial): "expand" and "normal"
\* are the calls of that name, "sign" is the product with the sign, "zero"
\* the constant _ex0.  The cells division_free_elimination leaves and the
\* value determinant_minor returns are expanded by those routines.
ReturnSteps(A, a, normal_flag) ==
    IF A.row = 1
    THEN IF normal_flag THEN <<"normal">> ELSE <<"expand">>
    ELSE IF a = "gauss"
    THEN IF normal_flag THEN <<"sign", "normal">>
         ELSE <<"sign", "normal", "expand">>
    ELSE IF a = "bareiss"
    THEN IF normal_flag THEN <<"sign", "normal">> ELSE <<"sign", "expand">>
    ELSE IF a = "divfree"
    THEN IF division_free_elimination(A, TRUE).sign = 0 THEN <<"zero">>
         ELSE IF A.row > 2 THEN <<"expand", "normal", "sign">>
         ELSE <<"expand", "sign">>
    ELSE IF normal_flag THEN <<"expand", "sign", "normal">>
         ELSE <<"expand", "sign">>

\* ------------------------------------------------------------- charpoly
\* a returned polynomial in lambda (poly[i+1] is the coefficient of
\* lambda^i), or the exception that left the call
OkPoly(q) == [kind |-> "ok", poly |-> q]
FailPoly(kind) == [kind |-> kind, poly |-> <<>>]

\* for (j=0; j<row; ++j) B.m[j*col+j] -= c
SubtractDiag(B, c) ==
    Mat(B.row, B.col,
        [i \in 1..(B.row * B.col) |->
            IF RowOf(B, i) = ColOf(B, i) THEN ESub(B.m[i], c) ELSE B.m[i]])

\* the loop for (i=1; i<row; ++i) of Leverrier's algorithm
RECURSIVE LeverrierLoop(_, _, _, _, _)
\* poly -= c*power(lambda, row-i-1) for the new c
LeverrierPoly(M, B, c, poly, i) ==
    LeverrierLoop(M, B, c, [poly EXCEPT ![M.row - i] = ESub(poly[M.row - i], c)],
                  i + 1)
\* c = B.trace() / ex(i+1) for the new B
LeverrierTrace(M, B, poly, i) ==
    LeverrierPoly(M, B, EDiv(trace(B).val, IntEx(i + 1)), poly, i)
LeverrierLoop(M, B, c, poly, i) ==
    IF i >= M.row THEN poly
    ELSE LeverrierTrace(M, mul(M, SubtractDiag(B, c)).mat, poly, i)

\* a faulty end of Leverrier's method: the sign is never flipped
SignedPoly_NeverNegates(poly, n) == poly

\* if (row%2) return -poly; else return poly;
SignedPoly(poly, n) ==
    IF n % 2 = 1 THEN AsSeq([j \in 1..(n + 1) |-> ENeg(poly[j])]) ELSE poly
\* the numeric branch: poly = lambda^row - c*lambda^(row-1) with c the
\* trace, then the loop
Leverrier(M, c) ==
    OkPoly(SignedPoly(
        LeverrierLoop(M, M, c,
                      AsSeq([j \in 1..(M.row + 1) |->
                                IF j = M.row + 1 THEN ex1
                                ELSE IF j = M.row THEN ENeg(c) ELSE ex0]),
                      1),
        M.row))

\* matrix::charpoly(lambda); a matrix with a symbolic entry takes the
\* determinant of M - lambda*1, whose entries are no values of the model
charpoly(M) ==
    IF M.row # M.col THEN FailPoly("NonSquareMatrix")
    ELSE IF \A i \in 1..Len(M.m) : is_numeric(M.m[i])
    THEN Leverrier(M, trace(M).val)
    ELSE CHOOSE z \in {} : TRUE

\* the symbol handed to charpoly
lambda == Sym(1)

\* x with lambda replaced by the plain number v
subs(x, v) ==
    Canon(RAdd(x.k, RMul(Coefs(x)[1], v.k)), [Coefs(x) EXCEPT ![1] = R0])

\* the value at lambda = v of S.determinant() for a matrix S with lambda in
\* its cells: the algorithm is the one determinant() chooses for S, the
\* arithmetic of that algorithm is carried out on the values of the cells
DeterminantAt(S, v) ==
    IF S.row = 1 THEN subs(S.m[1], v)
    ELSE DeterminantBy(Mat(S.row, S.col, [i \in 1..Len(S.m) |-> subs(S.m[i], v)]),
                       DeterminantAlgo(S, "automatic"))

\* the branch of charpoly() for a matrix with a symbolic entry, at
\* lambda = v: matrix M(*this); M.m[r*col+r] -= lambda; M.determinant()
CharpolyByDeterminant(M, v) == DeterminantAt(SubtractDiag(M, lambda), v)

\* the value at lambda = v of the polynomial with the coefficients
\* poly[j], poly[j+1], ... of lambda^0, lambda^1, ...
RECURSIVE PolyAt(_, _, _)
PolyAt(poly, j, v) ==
    IF j > Len(poly) THEN ex0
    ELSE EAdd(poly[j], EMul(v, PolyAt(poly, j + 1, v)))

\* ======================================================== state machine
\* A is the receiver, B the matrix argument (rhs of solve), V the grid of
\* placeholders handed to solve; op, arg and res record the last call, its
\* scalar argument and what it returned or threw.
VARIABLES A, B, V, op, arg, res
vars == <<A, B, V, op, arg, res>>

Vals == (-MaxVal)..MaxVal
\* matrix::matrix(r, c, lst) for a list l of r*c integers
IntMatrix(r, c, l) == Mat(r, c, [i \in 1..(r * c) |-> IntEx(l[i])])
NoMatrix == Mat(0, 0, <<>>)
NoResult == [kind |-> "none"]

\* ======================================================== object effects
\* The matrix objects a call can reach: the receiver (this), the matrix
\* argument (other), the grid of placeholders (vars), and the local matrix
\* the call constructs and works on (tmp: the copy `matrix tmp(*this)` of
\* determinant, the augmented matrix of solve, the result under
\* construction of the arithmetic).
Objects(a, b, v) == [this |-> a, other |-> b, vars |-> v, tmp |-> NoMatrix]

\* a faulty choice of the object worked on: the receiver itself
Working_IsReceiver == "this"

\* the object the in-place steps of a call run on: its local matrix
Working == "tmp"

\* the local matrix is constructed with the cells of M
Local(st, M) == [st EXCEPT !.tmp = M]
\* the in-place steps leave the cells of M in the object worked on
Mutate(st, M) == [st EXCEPT ![Working] = M]

\* determinant(): nothing is constructed before the throw and in the
\* row == 1 trap; else matrix tmp(*this) and tmp.gauss_elimination(true)
\* and the like, or the matrix of the sorted columns handed to
\* determinant_minor
DeterminantObjects(st, a) ==
    IF st.this.row # st.this.col \/ st.this.row = 1 THEN st
    ELSE IF a = "gauss"
    THEN Mutate(Local(st, st.this), gauss_elimination(st.this, TRUE).mat)
    ELSE IF a = "bareiss"
    THEN Mutate(Local(st, st.this), fraction_free_elimination(st.this, TRUE).mat)
    ELSE IF a = "divfree"
    THEN Mutate(Local(st, st.this), division_free_elimination(st.this, TRUE).mat)
    ELSE Mutate(Local(st, ZeroMatrix(st.this.row, st.this.col)),
                SortedColumns(st.this, pre_sort(st.this)))

\* charpoly(): matrix B(*this), then B.m[j*col+j] -= c and B = this->mul(B)
\* in the loop; LeverrierWork is B after the loop
RECURSIVE LeverrierWork(_, _, _, _)
LeverrierNext(M, W, i) ==
    LeverrierWork(M, W, EDiv(trace(W).val, IntEx(i + 1)), i + 1)
LeverrierWork(M, W, c, i) ==
    IF i >= M.row THEN W
    ELSE LeverrierNext(M, mul(M, SubtractDiag(W, c)).mat, i)

\* inverse(): solve() on the local identity and the local grid of symbols,
\* whose augmented matrix is eliminated in place
inverse_objects(st) ==
    IF st.this.row # st.this.col THEN st
    ELSE Mutate(Local(st, Augmented(st.this, IdentityMatrix(st.this.row))),
                Eliminate(Augmented(st.this, IdentityMatrix(st.this.row)),
                          "automatic"))

\* ------------------------------------------ mathematical reference values
\* s without its element number j
Drop(s, j) == AsSeq([i \in 1..(Len(s) - 1) |-> IF i < j THEN s[i] ELSE s[i + 1]])

\* the determinant of the rows rs and columns cs of M (two sequences of
\* equal length of 0-based indices), by cofactor expansion along the first
\* row; entries are plain numbers
RECURSIVE Minor(_, _, _)
Minor(M, rs, cs) ==
    IF Len(rs) = 0 THEN R1
    ELSE LET term(j) == RMul(IF j % 2 = 1 THEN At(M, rs[1], cs[j]).k
                             ELSE RNeg(At(M, rs[1], cs[j]).k),
                             Minor(M, Tail(rs), Drop(cs, j)))
             sum[j \in 0..Len(cs)] ==
                 IF j = 0 THEN R0
                 ELSE IF At(M, rs[1], cs[j]).k[1] = 0 THEN sum[j - 1]
                 ELSE RAdd(sum[j - 1], term(j))
         IN  sum[Len(cs)]

Upto(n) == AsSeq([i \in 1..n |-> i - 1])
\* the determinant of the square matrix M
Det(M) == Minor(M, Upto(M.row), Upto(M.col))

\* the matrix product by its definition: cell (i,j) is the sum over k of
\* X(i,k) * Y(k,j)
Product(X, Y) ==
    LET cell(r, c) ==
            LET sum[k \in 0..X.col] ==
                    IF k = 0 THEN ex0
                    ELSE EAdd(sum[k - 1], EMul(At(X, r, k - 1), At(Y, k - 1, c)))
            IN  sum[X.col]
    IN  Mat(X.row, Y.col,
            [i \in 1..(X.row * Y.col) |-> cell((i - 1) \div Y.col, (i - 1) % Y.col)])

\* the strictly increasing sequences of k of the indices 0 .. n-1
Increasing(n, k) ==
    {AsSeq(q) : q \in {f \in [1..k -> 0..(n - 1)] :
                          \A i \in 1..(k - 1) : f[i] < f[i + 1]}}
\* the rank of the matrix M of plain numbers: the size of its largest
\* square submatrix with a nonzero determinant
Rank(M) ==
    CHOOSE k \in 0..(IF M.row < M.col THEN M.row ELSE M.col) :
        /\ \E rs \in Increasing(M.row, k), cs \in Increasing(M.col, k) :
              Minor(M, rs, cs)[1] # 0
        /\ \A j \in (k + 1)..(IF M.row < M.col THEN M.row ELSE M.col) :
              \A rs \in Increasing(M.row, j), cs \in Increasing(M.col, j) :
                  Minor(M, rs, cs)[1] = 0
\* X with column co of Y attached to the right
WithColumn(X, Y, co) ==
    Mat(X.row, X.col + 1,
        [i \in 1..(X.row * (X.col + 1)) |->
            IF (i - 1) % (X.col + 1) < X.col
            THEN At(X, (i - 1) \div (X.col + 1), (i - 1) % (X.col + 1))
            ELSE At(Y, (i - 1) \div (X.col + 1), co)])
\* the linear system X * x = column co of Y has a solution
Solvable(X, Y, co) == Rank(WithColumn(X, Y, co)) = Rank(X)

\* the k-fold product of the square matrix X, the identity for k = 0
RECURSIVE Power(_, _)
Power(X, k) == IF k = 0 THEN IdentityMatrix(X.row) ELSE Product(Power(X, k - 1), X)

\* the scalar arguments of a call: the algorithm and the exponent
Args(algo, expn) == [algo |-> algo, expn |-> expn]
NoArgs == Args("none", ex0)

NatVals == 0..MaxVal
Exponents == {IntEx(e) : e \in (-MaxExp)..MaxExp} \cup {NumEx(<<1, 2>>)}
\* the indices of an element access (unsigned): those of a matrix of
\* MaxDim rows and the next two beyond them
Indices == 0..(MaxDim + 1)
\* the values assigned to a cell
Written == {IntEx(2), Sym(1)}
\* the dimensions handed to a constructor (unsigned)
Dims == 0..MaxArgDim
\* the elements of a list handed to a constructor
ListCells == {IntEx(1), IntEx(2)}
\* the lists of at most n elements of the set S, and those of ListCells
ListsOf(S, n) == UNION {{AsSeq(f) : f \in [1..k -> S]} : k \in 0..n}
Lists(n) == ListsOf(ListCells, n)
\* the scalars of mul_scalar(): integers, a fraction and a noncommutative
\* object
Scalars ==
    {IntEx(k) : k \in (-MaxScalar)..MaxScalar} \cup {NumEx(<<1, 2>>), NonCommutative}

\* ---------------------------------------------------------------- calls
\* Each call is made on the operands the initial state chose (op = "none")
\* and records what it returned.
Inverse ==
    /\ op = "none"
    /\ op' = "inverse" /\ arg' = NoArgs
    /\ res' = inverse(A)
    /\ UNCHANGED <<A, B, V>>

Determinant ==
    \E algo \in Algos :
        /\ op = "none"
        /\ op' = "determinant" /\ arg' = Args(algo, ex0)
        /\ res' = determinant(A, algo)
        /\ UNCHANGED <<A, B, V>>

\* determinant() observed for the form of its result; normal_flag is the
\* statistic of the entries, which rules out numeric_flag
DeterminantForm ==
    \E algo \in Algos, normal_flag \in BOOLEAN :
        /\ op = "none"
        /\ A.row = A.col
        /\ ~(normal_flag /\ \A i \in 1..Len(A.m) : is_numeric(A.m[i]))
        /\ op' = "determinant.form"
        /\ arg' = [algo |-> algo, expn |-> ex0, normal_flag |-> normal_flag]
        /\ res' = [kind |-> "ok",
                   val |-> ReturnSteps(A, DeterminantAlgo(A, algo), normal_flag)]
        /\ UNCHANGED <<A, B, V>>

\* pivot(ro, co, symbolic) on the matrix A, in place; arg keeps the matrix
\* as it was before the call.  Without symbolic the cells of column co are
\* plain numbers (the GINAC_ASSERTs of the search).
Pivot ==
    \E ro \in 0..(A.row - 1), co \in 0..(A.col - 1), symbolic \in BOOLEAN,
       g \in {ex0, ex1} :
        /\ op = "none"
        /\ symbolic \/ \A k \in 0..(A.row - 1) : is_numeric(At(A, k, co))
        /\ op' = "pivot"
        /\ arg' = [algo |-> "none", expn |-> ex0, ro |-> ro, co |-> co,
                   symbolic |-> symbolic, before |-> A]
        /\ A' = pivot_mode(A, ro, co, symbolic, g).mat
        /\ res' = [kind |-> "ok",
                   indx |-> pivot_mode(A, ro, co, symbolic, g).indx,
                   beyond |-> pivot_mode(A, ro, co, symbolic, g).beyond]
        /\ UNCHANGED <<B, V>>

\* determinant(determinant_algo::bareiss) with a divide() that reports
\* check for the first cell the elimination divides; a division is made
\* once tmp_n.pivot(0, 0) has found a pivot.  After the assertion the
\* elimination goes on with the quotient divide() stored in the cell.
DeterminantChecked ==
    \E check \in BOOLEAN, do_ginac_assert \in BOOLEAN :
        /\ op = "none"
        /\ A.row = A.col /\ A.row > 1
        /\ check \/ pivot(Numerators(A), 0, 0).indx >= 0
        /\ op' = "determinant.check"
        /\ arg' = [algo |-> "bareiss", expn |-> ex0, check |-> check,
                   do_ginac_assert |-> do_ginac_assert]
        /\ res' = IF AssertCheck(check, do_ginac_assert) = "abort"
                  THEN FailEx("Abort")
                  ELSE determinant(A, "bareiss")
        /\ UNCHANGED <<A, B, V>>

\* gauss_elimination(det), division_free_elimination(det) or
\* fraction_free_elimination(det) on the matrix A, in place; det asks for
\* a square matrix (GINAC_ASSERT(!det || n==m)); arg keeps the matrix as
\* it was before the call
Elimination ==
    \E routine \in {"gauss", "divfree", "bareiss"}, det \in BOOLEAN :
        /\ op = "none"
        /\ ~det \/ A.row = A.col
        /\ op' = "elimination"
        /\ arg' = [algo |-> routine, expn |-> ex0, det |-> det, before |-> A]
        /\ A' = IF routine = "gauss" THEN gauss_elimination(A, det).mat
                ELSE IF routine = "divfree"
                THEN division_free_elimination(A, det).mat
                ELSE fraction_free_elimination(A, det).mat
        /\ res' = [kind |-> "ok",
                   sign |-> IF routine = "gauss" THEN gauss_elimination(A, det).sign
                            ELSE IF routine = "divfree"
                            THEN division_free_elimination(A, det).sign
                            ELSE fraction_free_elimination(A, det).sign]
        /\ UNCHANGED <<B, V>>

\* the locals of determinant_minor() between two passes of its do-while
\* loop; held is the number of entries A and B had together at the end of
\* the last pass, before the maps changed their roles
MinorState(c, Pkey, Amap, Bmap, det, held) ==
    [kind |-> "ok", c |-> c, Pkey |-> Pkey, A |-> Amap, B |-> Bmap,
     det |-> det, held |-> held]

\* determinant_minor() of a matrix of more than three columns, up to the
\* head of the first pass of the column step c = n-2
MinorBegin ==
    /\ op = "none"
    /\ A.row = A.col /\ A.col > 3
    /\ op' = "determinant_minor.pass" /\ arg' = Args("laplace", ex0)
    /\ res' = MinorState(A.col - 2, FirstPkey(A.col, A.col - 2), LastColumnMap(A),
                         <<>>, ex0, A.col)
    /\ UNCHANGED <<A, B, V>>

\* one pass of do { ... } while(fc): the minor of the rows Pkey is summed
\* and stored, the counter moves on; when fc is 0 the column step ends,
\* and after the step c = 0 the function returns det
MinorPass ==
    /\ op = "determinant_minor.pass"
    /\ LET n    == A.col
           c    == res.c
           s    == MinorSum(A, n, c, res.Pkey, 0, res.A, ex0)
           B2   == IF ~is_zero(s.det) THEN MapInsert(res.B, res.Pkey, s.det)
                   ELSE res.B
           f    == FlipCounter(res.Pkey, n - c, c)
           held == Cardinality(DOMAIN s.A) + Cardinality(DOMAIN B2)
           next == NextColumnMaps(B2)
       IN  IF f.fc # 0
           THEN /\ op' = op
                /\ res' = MinorState(c, ResetTail(f.Pkey, f.fc, n, c), s.A, B2,
                                     s.det, held)
           ELSE IF c - 1 >= 0
           THEN /\ op' = op
                /\ res' = MinorState(c - 1, FirstPkey(n, c - 1), next.A, next.B,
                                     s.det, held)
           ELSE /\ op' = "determinant_minor"
                /\ res' = MinorState(c - 1, f.Pkey, next.A, next.B, s.det, held)
    /\ UNCHANGED <<A, B, V, arg>>

\* fraction_free_elimination(det) of a matrix of rational functions in one
\* symbol, observed for the outcome of its divisions
FractionFreeChecked ==
    \E det \in BOOLEAN :
        /\ op = "none"
        /\ ~det \/ A.row = A.col
        /\ LET e == PolyFractionFree(A, det)
           IN  /\ A' = e.mat
               /\ res' = [kind |-> "ok", sign |-> e.sign, check |-> e.check]
        /\ op' = "fraction_free_elimination"
        /\ arg' = [algo |-> "bareiss", expn |-> ex0, det |-> det, before |-> A]
        /\ UNCHANGED <<B, V>>

Charpoly ==
    /\ op = "none"
    /\ op' = "charpoly" /\ arg' = NoArgs
    /\ res' = charpoly(A)
    /\ UNCHANGED <<A, B, V>>

Trace ==
    /\ op = "none"
    /\ op' = "trace" /\ arg' = NoArgs
    /\ res' = trace(A)
    /\ UNCHANGED <<A, B, V>>

Pow ==
    \E e \in Exponents :
        /\ op = "none"
        /\ op' = "pow" /\ arg' = Args("none", e)
        /\ res' = pow(A, e)
        /\ UNCHANGED <<A, B, V>>

Transpose ==
    /\ op = "none"
    /\ op' = "transpose" /\ arg' = NoArgs
    /\ res' = Ok(transpose(A))
    /\ UNCHANGED <<A, B, V>>

Solve ==
    \E algo \in SolveAlgos :
        /\ op = "none"
        /\ op' = "solve" /\ arg' = Args(algo, ex0)
        /\ res' = solve(A, V, B, algo)
        /\ UNCHANGED <<A, B, V>>

Mul ==
    /\ op = "none"
    /\ op' = "mul" /\ arg' = NoArgs
    /\ res' = mul(A, B)
    /\ UNCHANGED <<A, B, V>>

\* the product a client takes of the matrix a first mul() returned and a
\* third matrix: A.mul(B).mul(V)
MulAgain ==
    /\ op = "mul" /\ res.kind = "ok"
    /\ op' = "mul.mul" /\ arg' = NoArgs
    /\ res' = mul(res.mat, V)
    /\ UNCHANGED <<A, B, V>>

Add ==
    /\ op = "none"
    /\ op' = "add" /\ arg' = NoArgs
    /\ res' = add(A, B)
    /\ UNCHANGED <<A, B, V>>

Sub ==
    /\ op = "none"
    /\ op' = "sub" /\ arg' = NoArgs
    /\ res' = sub(A, B)
    /\ UNCHANGED <<A, B, V>>

MulScalar ==
    \E k \in Scalars :
        /\ op = "none"
        /\ op' = "mul_scalar" /\ arg' = Args("none", k)
        /\ res' = mul_scalar(A, k)
        /\ UNCHANGED <<A, B, V>>

\* the determinant a client takes of the matrix mul_scalar() returned:
\* A.mul_scalar(k).determinant(algo)
DeterminantOfScaled ==
    \E algo \in Algos :
        /\ op = "mul_scalar" /\ res.kind = "ok"
        /\ op' = "mul_scalar.determinant" /\ arg' = Args(algo, arg.expn)
        /\ res' = determinant(res.mat, algo)
        /\ UNCHANGED <<A, B, V>>

\* the arguments of an element access: the indices and the value assigned
IndexArgs(ro, co, v) == [algo |-> "none", expn |-> v, ro |-> ro, co |-> co]

\* x = A(ro, co)
Read ==
    \E ro \in Indices, co \in Indices :
        /\ op = "none"
        /\ op' = "read" /\ arg' = IndexArgs(ro, co, ex0)
        /\ res' = operator_call(A, ro, co)
        /\ UNCHANGED <<A, B, V>>

\* A(ro, co) = v
Write ==
    \E ro \in Indices, co \in Indices, v \in Written :
        /\ op = "none"
        /\ op' = "write" /\ arg' = IndexArgs(ro, co, v)
        /\ res' = operator_call(A, ro, co)
        /\ A' = Assigned(A, operator_call(A, ro, co), v)
        /\ UNCHANGED <<B, V>>

\* the arguments of a construction: the dimensions and the list
CtorArgs(r, c, l) == [algo |-> "none", expn |-> ex0, r |-> r, c |-> c, l |-> l]

\* matrix X;
DefaultCtor ==
    /\ op = "none"
    /\ op' = "matrix" /\ arg' = CtorArgs(1, 1, <<>>)
    /\ A' = matrix_default /\ res' = Ok(matrix_default)
    /\ UNCHANGED <<B, V>>

\* matrix X(r, c);
DimCtor ==
    \E r \in Dims, c \in Dims :
        /\ op = "none"
        /\ op' = "matrix_dims" /\ arg' = CtorArgs(r, c, <<>>)
        /\ A' = ZeroMatrix(r, c) /\ res' = Ok(ZeroMatrix(r, c))
        /\ UNCHANGED <<B, V>>

\* matrix X(r, c, l);
ListCtor ==
    \E r \in Dims, c \in Dims, l \in Lists(MaxList) :
        /\ op = "none"
        /\ op' = "matrix_lst" /\ arg' = CtorArgs(r, c, l)
        /\ res' = matrix_lst(r, c, l)
        /\ A' = IF matrix_lst(r, c, l).kind = "ok" THEN matrix_lst(r, c, l).mat ELSE A
        /\ UNCHANGED <<B, V>>

\* matrix X(n, sym_lst); for an archive node n
ArchiveCtor ==
    \E row \in Dims \cup {-1}, col \in Dims \cup {-1}, l \in Lists(MaxArgDim) :
        /\ op = "none"
        /\ op' = "matrix_archive" /\ arg' = CtorArgs(row, col, l)
        /\ res' = matrix_archive(ArchiveNode(row, col, l))
        /\ A' = IF matrix_archive(ArchiveNode(row, col, l)).kind = "ok"
                THEN matrix_archive(ArchiveNode(row, col, l)).mat ELSE A
        /\ UNCHANGED <<B, V>>

\* X = lst_to_matrix(l); for a list of lists l
LstToMatrix ==
    \E l \in ListsOf(Lists(MaxArgDim), MaxArgDim) :
        /\ op = "none"
        /\ op' = "lst_to_matrix" /\ arg' = CtorArgs(0, 0, l)
        /\ A' = lst_to_matrix(l) /\ res' = Ok(lst_to_matrix(l))
        /\ UNCHANGED <<B, V>>

\* X = diag_matrix(l);
DiagMatrix ==
    \E l \in Lists(MaxArgDim) :
        /\ op = "none"
        /\ op' = "diag_matrix" /\ arg' = CtorArgs(0, 0, l)
        /\ A' = diag_matrix(l) /\ res' = Ok(diag_matrix(l))
        /\ UNCHANGED <<B, V>>

\* A call together with its effect on the objects: it records what it
\* returned and leaves every object it can reach as the call left it (st).
Call(name, args, result, st) ==
    /\ op = "none"
    /\ op' = name /\ arg' = args /\ res' = result
    /\ A' = st.this /\ B' = st.other /\ V' = st.vars

DeterminantCall ==
    \E algo \in Algos :
        Call("determinant", Args(algo, ex0), determinant(A, algo),
             DeterminantObjects(Objects(A, B, V), DeterminantAlgo(A, algo)))
\* charpoly(): the local matrix B exists once the shape test has passed
CharpolyCall ==
    Call("charpoly", NoArgs, charpoly(A),
         IF A.row # A.col THEN Objects(A, B, V)
         ELSE Mutate(Local(Objects(A, B, V), A),
                     LeverrierWork(A, A, trace(A).val, 1)))
InverseCall ==
    Call("inverse", NoArgs, inverse(A), inverse_objects(Objects(A, B, V)))
\* solve(): after the checks, matrix aug(m, n+p) is filled and eliminated
\* in place
SolveCall ==
    \E algo \in SolveAlgos :
        Call("solve", Args(algo, ex0), solve(A, V, B, algo),
             IF solve(A, V, B, algo).kind
                    \in {"DimensionMismatch", "InvalidArgument"}
             THEN Objects(A, B, V)
             ELSE Mutate(Local(Objects(A, B, V), Augmented(A, B)),
                         Eliminate(Augmented(A, B), algo)))
\* pow(): matrix result(row,col) set to the identity, then
\* result = result.mul(prod) in the loop; a negative exponent calls
\* inverse() first, which may throw
PowCall ==
    \E e \in Exponents :
        Call("pow", Args("none", e), pow(A, e),
             IF A.row # A.col \/ ~(is_numeric(e) /\ is_integer(e))
             THEN Objects(A, B, V)
             ELSE IF pow(A, e).kind # "ok" THEN inverse_objects(Objects(A, B, V))
             ELSE Mutate(Local(Objects(A, B, V), IdentityMatrix(A.row)),
                         pow(A, e).mat))
\* transpose(): exvector trans(cols*rows) filled cell by cell
TransposeCall ==
    Call("transpose", NoArgs, Ok(transpose(A)),
         Mutate(Local(Objects(A, B, V), ZeroMatrix(A.col, A.row)), transpose(A)))
\* add(): exvector sum(this->m); (*i) += (*ci)
AddCall ==
    Call("add", NoArgs, add(A, B),
         IF add(A, B).kind # "ok" THEN Objects(A, B, V)
         ELSE Mutate(Local(Objects(A, B, V), A), add(A, B).mat))
\* sub(): exvector dif(this->m); (*i) -= (*ci)
SubCall ==
    Call("sub", NoArgs, sub(A, B),
         IF sub(A, B).kind # "ok" THEN Objects(A, B, V)
         ELSE Mutate(Local(Objects(A, B, V), A), sub(A, B).mat))
\* mul(): exvector prod(rows*other.cols); prod[...] += ...
MulCall ==
    Call("mul", NoArgs, mul(A, B),
         IF mul(A, B).kind # "ok" THEN Objects(A, B, V)
         ELSE Mutate(Local(Objects(A, B, V), ZeroMatrix(A.row, B.col)),
                     mul(A, B).mat))

\* ------------------------------------------------------- specifications
NoCall == op = "none" /\ arg = NoArgs /\ res = NoResult

\* inverse() of every square matrix of at most MaxDim rows over Vals
InitInverse ==
    /\ \E n \in 1..MaxDim : \E l \in [1..(n * n) -> Vals] : A = IntMatrix(n, n, l)
    /\ B = NoMatrix /\ V = NoMatrix /\ NoCall
NextInverse == Inverse
SpecInverse == InitInverse /\ [][NextInverse]_vars

\* the calls with one matrix operand, on every matrix of at most MaxDim
\* rows and columns over NatVals, square or not
InitOps ==
    /\ \E r \in 1..MaxDim, c \in 1..MaxDim :
          \E l \in [1..(r * c) -> NatVals] : A = IntMatrix(r, c, l)
    /\ B = NoMatrix /\ V = NoMatrix /\ NoCall
NextOps == Determinant \/ Charpoly \/ Trace \/ Inverse \/ Pow \/ Transpose
SpecOps == InitOps /\ [][NextOps]_vars

\* determinant() of every square matrix of 2 .. MaxDim rows over Vals, and
\* of the 0/1 matrices of DetDim rows with at most RowOnes ones in a row
SparseRows(n) ==
    {l \in [1..n -> {0, 1}] : Cardinality({i \in 1..n : l[i] = 1}) <= RowOnes}
FromRows(n, rows) ==
    IntMatrix(n, n, [i \in 1..(n * n) |-> rows[((i - 1) \div n) + 1][((i - 1) % n) + 1]])
InitDet ==
    /\ \/ \E n \in 2..MaxDim : \E l \in [1..(n * n) -> Vals] : A = IntMatrix(n, n, l)
       \/ \E rows \in [1..DetDim -> SparseRows(DetDim)] : A = FromRows(DetDim, rows)
    /\ B = NoMatrix /\ V = NoMatrix /\ NoCall
NextDet == Determinant
SpecDet == InitDet /\ [][NextDet]_vars

\* solve() of every system of at most MaxDim equations in at most MaxDim
\* unknowns with at most MaxP right-hand sides over NatVals whose augmented
\* matrix has at most MaxCells cells, on a grid of distinct symbols
InitSolve ==
    /\ \E m \in 1..MaxDim, n \in 1..MaxDim, p \in 1..MaxP :
          /\ m * (n + p) <= MaxCells
          /\ \E l \in [1..(m * n) -> NatVals] : A = IntMatrix(m, n, l)
          /\ \E l \in [1..(m * p) -> NatVals] : B = IntMatrix(m, p, l)
          /\ V = FreshVars(n, p)
    /\ NoCall
NextSolve == Solve
SpecSolve == InitSolve /\ [][NextSolve]_vars

\* cells that are no bare symbol: a number, a multiple of a symbol, a sum
NonSymbols == {ex1, EScale(Sym(1), <<2, 1>>), EAdd(Sym(1), ex1)}

\* solve() on a receiver, a right-hand side and a grid of any shapes of at
\* most MaxArgDim rows and columns; the grid holds distinct symbols, but for
\* one cell at most, which holds a non-symbol
InitSolveArgs ==
    /\ \E m \in 1..MaxArgDim, n \in 1..MaxArgDim :
          \E l \in [1..(m * n) -> NatVals] : A = IntMatrix(m, n, l)
    /\ \E r \in 1..MaxArgDim, p \in 1..MaxArgDim :
          \E l \in [1..(r * p) -> NatVals] : B = IntMatrix(r, p, l)
    /\ \E vr \in 1..MaxArgDim, vc \in 1..MaxArgDim :
          \/ V = FreshVars(vr, vc)
          \/ \E i \in 1..(vr * vc), x \in NonSymbols :
                V = Mat(vr, vc, [FreshVars(vr, vc).m EXCEPT ![i] = x])
    /\ NoCall
NextSolveArgs == Solve
SpecSolveArgs == InitSolveArgs /\ [][NextSolveArgs]_vars

\* the cells of a factor that may hold a symbol: 0, 1 and the first symbol
SymCells == {IntEx(v) : v \in NatVals} \cup {Sym(1)}

\* add(), sub() and mul() on a receiver A and an argument B, and the
\* product of what mul() returned with a third matrix V; the three matrices
\* have any shapes of at most MaxArgDim rows and columns, A and V hold
\* numbers of NatVals and B holds SymCells
InitArith ==
    /\ \E r \in 1..MaxArgDim, c \in 1..MaxArgDim :
          \E l \in [1..(r * c) -> NatVals] : A = IntMatrix(r, c, l)
    /\ \E r \in 1..MaxArgDim, c \in 1..MaxArgDim :
          \E l \in [1..(r * c) -> SymCells] : B = Mat(r, c, l)
    /\ \E r \in 1..MaxArgDim, c \in 1..MaxArgDim :
          \E l \in [1..(r * c) -> NatVals] : V = IntMatrix(r, c, l)
    /\ NoCall
NextArith == Mul \/ MulAgain \/ Add \/ Sub
SpecArith == InitArith /\ [][NextArith]_vars

\* mul_scalar() of every square matrix of at most MaxDim rows over NatVals
\* by every scalar of Scalars, and the determinant of what it returned
InitScalar ==
    /\ \E n \in 1..MaxDim : \E l \in [1..(n * n) -> NatVals] : A = IntMatrix(n, n, l)
    /\ B = NoMatrix /\ V = NoMatrix /\ NoCall
NextScalar == MulScalar \/ DeterminantOfScaled
SpecScalar == InitScalar /\ [][NextScalar]_vars

\* one element access, for reading or for writing, on every matrix of at
\* most MaxDim rows and columns over NatVals
InitAccess ==
    /\ \E r \in 1..MaxDim, c \in 1..MaxDim :
          \E l \in [1..(r * c) -> NatVals] : A = IntMatrix(r, c, l)
    /\ B = NoMatrix /\ V = NoMatrix /\ NoCall
NextAccess == Read \/ Write
SpecAccess == InitAccess /\ [][NextAccess]_vars

\* the construction of a matrix object in each of the ways the source
\* offers; before it there is no object (A is the placeholder NoMatrix)
InitCtor == A = NoMatrix /\ B = NoMatrix /\ V = NoMatrix /\ NoCall
NextCtor ==
    DefaultCtor \/ DimCtor \/ ListCtor \/ ArchiveCtor \/ LstToMatrix \/ DiagMatrix
SpecCtor == InitCtor /\ [][NextCtor]_vars

\* every call that works on a local matrix, with its effect on the objects,
\* on every receiver of at most MaxDim rows and columns over NatVals whose
\* first cell is zero or which has MaxArgDim rows and columns at most, every
\* argument of at most MaxArgDim rows and columns and the grid of symbols
\* that fits them
InitFrame ==
    /\ \E r \in 1..MaxDim, c \in 1..MaxDim :
          \E l \in [1..(r * c) -> NatVals] :
              /\ (r <= MaxArgDim /\ c <= MaxArgDim) \/ l[1] = 0
              /\ A = IntMatrix(r, c, l)
    /\ \E r \in 1..MaxArgDim :
          \E l \in [1..r -> NatVals] : B = IntMatrix(r, 1, l)
    /\ V = FreshVars(A.col, B.col)
    /\ NoCall
NextFrame ==
    \/ DeterminantCall \/ CharpolyCall \/ InverseCall \/ SolveCall \/ PowCall
    \/ TransposeCall \/ AddCall \/ SubCall \/ MulCall
SpecFrame == InitFrame /\ [][NextFrame]_vars

\* charpoly() of every square matrix of at most MaxDim rows over Vals and
\* of diag(t, t, t) for the plain numbers t of Scalars
InitCharpoly ==
    /\ \/ \E n \in 1..MaxDim : \E l \in [1..(n * n) -> Vals] : A = IntMatrix(n, n, l)
       \/ \E t \in Scalars \ {NonCommutative} : A = diag_matrix(<<t, t, t>>)
    /\ B = NoMatrix /\ V = NoMatrix /\ NoCall
NextCharpoly == Charpoly
SpecCharpoly == InitCharpoly /\ [][NextCharpoly]_vars

\* M with the symbol x assigned to its last cell when x is one
WithLastCell(M, x) ==
    IF is_numeric(x) THEN M
    ELSE Assigned(M, operator_call(M, M.row - 1, M.col - 1), x)

\* determinant() with every algorithm, of every square matrix of at most
\* MaxDim rows over NatVals and of the 0/1 matrices of DetDim rows with at
\* most RowOnes ones in a row and DetDim ones in all, as they are and with
\* a symbol in the last cell
InitDispatch ==
    /\ \E x \in {ex0, Sym(1)} :
          \/ \E n \in 1..MaxDim : \E l \in [1..(n * n) -> NatVals] :
                A = WithLastCell(IntMatrix(n, n, l), x)
          \/ \E rows \in [1..DetDim -> SparseRows(DetDim)] :
                /\ Cardinality({p \in (1..DetDim) \X (1..DetDim) :
                                   rows[p[1]][p[2]] = 1}) <= DetDim
                /\ A = WithLastCell(FromRows(DetDim, rows), x)
    /\ B = NoMatrix /\ V = NoMatrix /\ NoCall
NextDispatch == Determinant
SpecDispatch == InitDispatch /\ [][NextDispatch]_vars

\* determinant(), observed for the form of its result, with every
\* algorithm on the matrices of InitDispatch
NextForm == DeterminantForm
SpecForm == InitDispatch /\ [][NextForm]_vars

\* pivot() in both modes from every row and in every column of every
\* matrix of at most MaxDim rows and MaxArgDim columns over Vals and a symbol
InitPivot ==
    /\ \E r \in 1..MaxDim, c \in 1..MaxArgDim :
          \E l \in [1..(r * c) -> {IntEx(v) : v \in Vals} \cup {Sym(1)}] :
              A = Mat(r, c, l)
    /\ B = NoMatrix /\ V = NoMatrix /\ NoCall
NextPivot == Pivot
SpecPivot == InitPivot /\ [][NextPivot]_vars

\* determinant() by fraction-free elimination, with a divide() that
\* succeeds or fails, on every square matrix of at most MaxDim rows
NextChecked == DeterminantChecked
SpecChecked == InitInverse /\ [][NextChecked]_vars

\* the three elimination routines in both modes on the matrices of InitOps
NextElimination == Elimination
SpecElimination == InitOps /\ [][NextElimination]_vars

\* determinant_minor() pass by pass, of the 0/1 matrices of DetDim rows
\* with at most RowOnes ones in a row
InitMinor ==
    /\ \E rows \in [1..DetDim -> SparseRows(DetDim)] : A = FromRows(DetDim, rows)
    /\ B = NoMatrix /\ V = NoMatrix /\ NoCall
NextMinor == MinorBegin \/ MinorPass
SpecMinor == InitMinor /\ [][NextMinor]_vars

\* determinant() of every square matrix of 2 .. MaxDim rows over Vals, and
\* of the matrices of DetDim rows with cells 0 and 2, at most RowOnes of
\* them 2 in a row, whose pivots differ from 1 and -1
InitDivFree ==
    /\ \/ \E n \in 2..MaxDim : \E l \in [1..(n * n) -> Vals] : A = IntMatrix(n, n, l)
       \/ \E rows \in [1..DetDim -> SparseRows(DetDim)] :
             A = FromRows(DetDim, [i \in 1..DetDim |->
                                      [j \in 1..DetDim |-> 2 * rows[i][j]]])
    /\ B = NoMatrix /\ V = NoMatrix /\ NoCall
NextDivFree == Determinant
SpecDivFree == InitDivFree /\ [][NextDivFree]_vars

\* fraction_free_elimination() of matrices of rational functions in one
\* symbol x.  The cells that are not zero are x on the diagonal, x+1 right
\* of it and 1/(x+1) left of it; a 0/1 matrix marks them.  The matrices
\* have 2 .. MaxDim rows and 2 .. MaxDim+1 columns with at most one zero
\* in a row, or DetDim rows and columns with at most one zero in all.
PolyPattern(i, j) ==
    IF i = j THEN Frac(polyx, poly1)
    ELSE IF j > i THEN Frac(<<R1, R1>>, poly1)
    ELSE Frac(poly1, <<R1, R1>>)
PatternMatrix(r, c, rows) ==
    Mat(r, c, [i \in 1..(r * c) |->
                  LET ro == ((i - 1) \div c) + 1
                      co == ((i - 1) % c) + 1
                  IN  IF rows[ro][co] = 1 THEN PolyPattern(ro, co)
                      ELSE Frac(<<>>, poly1)])
OneZeroRows(c) ==
    {l \in [1..c -> {0, 1}] : Cardinality({i \in 1..c : l[i] = 0}) <= 1}
InitPoly ==
    /\ \/ \E r \in 2..MaxDim, c \in 2..(MaxDim + 1) :
             \E rows \in [1..r -> OneZeroRows(c)] : A = PatternMatrix(r, c, rows)
       \/ \E rows \in [1..DetDim -> OneZeroRows(DetDim)] :
             /\ Cardinality({i \in 1..DetDim : rows[i] # [j \in 1..DetDim |-> 1]}) <= 1
             /\ A = PatternMatrix(DetDim, DetDim, rows)
    /\ B = NoMatrix /\ V = NoMatrix /\ NoCall
NextPoly == FractionFreeChecked
SpecPoly == InitPoly /\ [][NextPoly]_vars

\* ================================================================ claims
\* the cells of X that are plain numbers
AllNumeric(X) == \A i \in 1..Len(X.m) : is_numeric(X.m[i])

\* what inverse() returns when solve() eliminates with the variant algo
InverseBy(M, algo) ==
    Translate(solve(M, FreshVars(M.row, M.col), IdentityMatrix(M.row), algo))

\* r is a returned matrix X of the shape of M with M * X the identity
IsRightInverse(M, r) ==
    /\ r.kind = "ok"
    /\ r.mat.row = M.row /\ r.mat.col = M.col
    /\ Product(M, r.mat) = IdentityMatrix(M.row)

\* C1: for every square A with nonzero determinant, inverse(A) returns a
\* matrix X of the shape of A with A * X equal to the identity in every
\* cell, and so does the solving step under each elimination variant
C1_InverseIsRightInverse ==
    (op = "inverse" /\ A.row = A.col /\ Det(A)[1] # 0) =>
        /\ IsRightInverse(A, res)
        /\ \A algo \in SolveAlgos : IsRightInverse(A, InverseBy(A, algo))

\* an invertible matrix of MaxDim rows, whose elimination needs a row
\* interchange, has been inverted into a matrix with a fractional cell
C1_Witness ==
    /\ op = "inverse" /\ A.row = MaxDim /\ Det(A)[1] # 0
    /\ is_zero(At(A, 0, 0))
    /\ res.kind = "ok"
    /\ \E i \in 1..Len(res.mat.m) : ~is_integer(res.mat.m[i])

\* C2: for every square A with determinant zero inverse(A) fails with
\* SingularMatrix; inverse() never fails with InconsistentSystem, a matrix
\* it returns holds no placeholder symbol, and the other failures of
\* solve() leave inverse() as they are
C2_SingularIsReported ==
    op = "inverse" =>
        /\ (A.row = A.col /\ Det(A)[1] = 0) => res.kind = "SingularMatrix"
        /\ res.kind \in {"ok", "SingularMatrix"}
        /\ res.kind = "ok" => AllNumeric(res.mat)
        /\ \A k \in {"DimensionMismatch", "InvalidArgument"} :
              Translate(Fail(k)) = Fail(k)

\* a nonzero singular matrix of MaxDim rows was refused as singular
C2_Witness ==
    /\ op = "inverse" /\ A.row = MaxDim /\ Det(A)[1] = 0
    /\ \E i \in 1..Len(A.m) : ~is_zero(A.m[i])
    /\ res.kind = "SingularMatrix"

\* the three algorithms the determinants of which are compared
DetTrio == {"gauss", "bareiss", "laplace"}

\* C3: for every square A of 2 rows or more, determinant(A) under gauss,
\* bareiss and laplace returns one value: each of them returns what laplace
\* returns, which is the determinant of A by cofactor expansion
C3_DeterminantsAgree ==
    (op = "determinant" /\ arg.algo \in DetTrio /\ A.row = A.col /\ A.row >= 2) =>
        /\ res.kind = "ok"
        /\ res = determinant(A, "laplace")
        /\ res.val = NumEx(Det(A))

\* the fraction-free determinant of a matrix of DetDim rows that needs a row
\* interchange and whose columns laplace takes in another order was nonzero
C3_Witness ==
    /\ op = "determinant" /\ arg.algo = "bareiss" /\ A.row = DetDim
    /\ is_zero(At(A, 0, 0))
    /\ pre_sort(A) # Upto(DetDim)
    /\ res.kind = "ok" /\ ~is_zero(res.val)

\* every right-hand-side column of the call has a solution
AllSolvable == \A co \in 0..(B.col - 1) : Solvable(A, B, co)

\* r is a returned grid X of A.col rows and B.col columns with A * X = B
\* in every cell, identically in the symbols
IsSolution(r) ==
    /\ r.kind = "ok"
    /\ r.mat.row = A.col /\ r.mat.col = B.col
    /\ Product(A, r.mat) = B

\* C4: when every right-hand-side column has exactly one solution, solve()
\* under each elimination variant returns a grid X of A.col rows and B.col
\* columns without any symbol of vars and with A * X = B
C4_UniqueSolution ==
    (op = "solve" /\ AllSolvable /\ Rank(A) = A.col) =>
        /\ IsSolution(res)
        /\ AllNumeric(res.mat)

\* a system of MaxDim equations in MaxDim unknowns with one solution, which
\* has a fractional cell, was solved by fraction-free elimination
C4_Witness ==
    /\ op = "solve" /\ arg.algo = "bareiss"
    /\ A.row = MaxDim /\ A.col = MaxDim /\ Rank(A) = A.col
    /\ res.kind = "ok"
    /\ \E i \in 1..Len(res.mat.m) : ~is_integer(res.mat.m[i])

\* a row of the eliminated augmented matrix aug (n coefficient columns, p
\* right-hand sides) with zero coefficients and a nonzero right-hand side
ContradictoryRow(aug, n, p) ==
    \E r \in 0..(aug.row - 1), co \in 0..(p - 1) :
        /\ \A c \in 0..(n - 1) : is_zero(At(aug, r, c))
        /\ ~is_zero(At(aug, r, n + co))

\* C5: solve() fails with InconsistentSystem exactly when some
\* right-hand-side column has no solution, it fails so whenever the
\* eliminated augmented matrix has a row of zero coefficients with a nonzero
\* right-hand side, and on well-formed arguments it fails in no other way
C5_InconsistentExactly ==
    op = "solve" =>
        /\ res.kind = "InconsistentSystem" <=> ~AllSolvable
        /\ ContradictoryRow(Eliminate(Augmented(A, B), arg.algo), A.col, B.col)
              => res.kind = "InconsistentSystem"
        /\ res.kind \in {"ok", "InconsistentSystem"}

\* division-free elimination refused a system with MaxP right-hand sides
\* of which only the last one has no solution
C5_Witness ==
    /\ op = "solve" /\ arg.algo = "divfree" /\ B.col = MaxP
    /\ \A co \in 0..(B.col - 2) : Solvable(A, B, co)
    /\ ~Solvable(A, B, B.col - 1)
    /\ res.kind = "InconsistentSystem"

\* the rows of column co of the grid X that hold the symbol of the same
\* cell of V
FreeRows(X, co) == {c \in 0..(X.row - 1) : At(X, c, co) = At(V, c, co)}

\* every symbol the expression x mentions is the symbol of a free row of
\* column co
OnlyFreeSymbols(x, X, co) ==
    \A s \in 1..NSym :
        Coefs(x)[s][1] # 0 => \E c \in FreeRows(X, co) : At(V, c, co) = Sym(s)

\* C6: when every right-hand-side column has a solution and rank(A) is
\* less than the number of unknowns, solve() returns a grid X with
\* A * X = B in which every column holds the caller's symbol of the same
\* cell in exactly A.col - rank(A) rows, the other cells mentioning the
\* symbols of those rows only
C6_FreeParameters ==
    (op = "solve" /\ AllSolvable /\ Rank(A) < A.col) =>
        /\ IsSolution(res)
        /\ \A co \in 0..(B.col - 1) :
              /\ Cardinality(FreeRows(res.mat, co)) = A.col - Rank(A)
              /\ \A c \in 0..(A.col - 1) :
                    OnlyFreeSymbols(At(res.mat, c, co), res.mat, co)

\* gaussian elimination solved a system of MaxDim equations of rank
\* between 1 and MaxDim - 1, one unknown being an expression in a free one
C6_Witness ==
    /\ op = "solve" /\ arg.algo = "gauss"
    /\ A.row = MaxDim /\ Rank(A) > 0 /\ Rank(A) < A.col
    /\ res.kind = "ok"
    /\ \E i \in 1..Len(res.mat.m) :
          ~is_numeric(res.mat.m[i]) /\ ~is_symbol(res.mat.m[i])

\* the shapes solve() asks for: rhs has the rows of A, vars has a row for
\* every column of A and a column for every column of rhs
ShapesFit == B.row = A.row /\ V.row = A.col /\ V.col = B.col
\* every cell of the grid V is one of the symbols
AllSymbols == \A i \in 1..Len(V.m) : V.m[i] \in {Sym(s2) : s2 \in 1..NSym}

\* C7: solve() fails with DimensionMismatch whenever the shapes do not fit,
\* whatever the cells of vars hold; with fitting shapes it fails with
\* InvalidArgument when a cell of vars is no bare symbol; with fitting
\* shapes and symbols everywhere it fails with neither
C7_ArgumentChecks ==
    op = "solve" =>
        /\ ~ShapesFit => res.kind = "DimensionMismatch"
        /\ (ShapesFit /\ ~AllSymbols) => res.kind = "InvalidArgument"
        /\ (ShapesFit /\ AllSymbols) => res.kind \in {"ok", "InconsistentSystem"}

\* a call whose shapes do not fit and whose grid holds a non-symbol failed
\* with DimensionMismatch
C7_Witness ==
    /\ op = "solve" /\ ~ShapesFit /\ ~AllSymbols
    /\ V.row = A.col /\ B.row = A.row
    /\ res.kind = "DimensionMismatch"

\* what pow(M, n) is to return for the integer n given what inverse(M)
\* returned: the |n|-fold product of M or of the inverse, or the failure
\* of inverse()
PowerOrFailure(M, n, inv) ==
    IF n >= 0 THEN Ok(Power(M, n))
    ELSE IF inv.kind = "ok" THEN Ok(Power(inv.mat, -n))
    ELSE inv

\* C8: for every square A and every integer n, pow(A, n) returns the n-fold
\* product of A when n >= 0, the identity when n = 0 whether A is singular
\* or not, and the |n|-fold product of inverse(A) when n < 0, failing as
\* inverse(A) fails when there is no inverse
C8_PowIsRepeatedProduct ==
    (op = "pow" /\ A.row = A.col /\ is_integer(arg.expn)) =>
        /\ res = PowerOrFailure(A, arg.expn.k[1], inverse(A))
        /\ arg.expn.k[1] = 0 => res = Ok(IdentityMatrix(A.row))

\* a negative power below -1 of an invertible matrix of MaxDim rows was
\* returned, with a negative cell
C8_Witness ==
    /\ op = "pow" /\ A.row = MaxDim /\ A.col = MaxDim
    /\ is_integer(arg.expn) /\ arg.expn.k[1] < -1
    /\ res.kind = "ok"
    /\ \E i \in 1..Len(res.mat.m) : is_negative(res.mat.m[i])

\* the calls that ask for a square matrix
SquareOnly == {"determinant", "charpoly", "inverse", "pow", "trace"}

\* C9: determinant, charpoly, inverse, pow and trace fail with
\* NonSquareMatrix on every matrix whose rows and columns differ in number,
\* whatever the algorithm or the exponent and also for one row, and on no
\* square matrix
C9_NonSquareRefused ==
    op \in SquareOnly => (res.kind = "NonSquareMatrix" <=> A.row # A.col)

\* the determinant of a matrix of one row and several columns was refused
C9_Witness ==
    /\ op = "determinant" /\ A.row = 1 /\ A.col > 1
    /\ res.kind = "NonSquareMatrix"

\* C10: transpose(A) has the columns of A for rows and the rows of A for
\* columns, its cell (c, r) is the cell (r, c) of A, and its own transpose
\* is A
C10_TransposeSwapsIndices ==
    op = "transpose" =>
        /\ res.kind = "ok"
        /\ res.mat.row = A.col /\ res.mat.col = A.row
        /\ \A r \in 0..(A.row - 1), c \in 0..(A.col - 1) :
              At(res.mat, c, r) = At(A, r, c)
        /\ transpose(res.mat) = A

\* a matrix of MaxDim rows and fewer columns, with two cells that differ,
\* was transposed
C10_Witness ==
    /\ op = "transpose" /\ A.row = MaxDim /\ A.col < MaxDim /\ A.col > 1
    /\ At(A, 0, 1) # At(A, 1, 0)
    /\ res.kind = "ok" /\ res.mat.row = A.col

\* C11: mul(A, B) fails with DimensionMismatch unless A has as many columns
\* as B has rows; otherwise it returns a matrix of the rows of A and the
\* columns of B whose cell (i,j) is the sum over every k, zero left factors
\* included, of A(i,k) * B(k,j)
C11_MulIsSumOfProducts ==
    op = "mul" =>
        IF A.col # B.row THEN res = Fail("DimensionMismatch")
        ELSE /\ res.kind = "ok"
             /\ res.mat.row = A.row /\ res.mat.col = B.col
             /\ res.mat = Product(A, B)

\* a product was returned whose left factor has a zero cell before a
\* nonzero cell in one row and whose result holds a symbolic cell
C11_Witness ==
    /\ op = "mul" /\ res.kind = "ok"
    /\ A.col = MaxArgDim /\ B.col = MaxArgDim
    /\ is_zero(At(A, 0, 0)) /\ ~is_zero(At(A, 0, 1))
    /\ ~is_numeric(At(res.mat, 0, 0))

\* C12: for all A, B, V with cols(A) = rows(B) and cols(B) = rows(V), the
\* product of mul(A, B) with V equals the product of A with mul(B, V), in
\* shape and in every cell
C12_MulAssociative ==
    (op = "mul.mul" /\ B.col = V.row) =>
        /\ res.kind = "ok"
        /\ mul(B, V).kind = "ok"
        /\ res = mul(A, mul(B, V).mat)

\* three factors of MaxArgDim rows and columns, the first two of which do
\* not commute, were multiplied into a matrix with a symbolic cell
C12_Witness ==
    /\ op = "mul.mul" /\ res.kind = "ok"
    /\ A.row = MaxArgDim /\ A.col = MaxArgDim /\ B.col = MaxArgDim
    /\ V.col = MaxArgDim
    /\ mul(A, B) # mul(B, A)
    /\ \E i \in 1..Len(res.mat.m) : ~is_numeric(res.mat.m[i])

\* the n-th power of the rational q
RECURSIVE RPow(_, _)
RPow(q, n) == IF n = 0 THEN R1 ELSE RMul(q, RPow(q, n - 1))

\* C13: for every square A of n rows and every commutative scalar k, the
\* determinant of mul_scalar(A, k) is k^n times the determinant of A,
\* whichever algorithm computes the two determinants
C13_DeterminantOfScaled ==
    op = "mul_scalar.determinant" =>
        /\ res.kind = "ok"
        /\ res.val = EScale(determinant(A, arg.algo).val, RPow(arg.expn.k, A.row))
        /\ res.val = NumEx(RMul(RPow(arg.expn.k, A.row), Det(A)))

\* the determinant of a matrix of MaxDim rows scaled by a negative integer
\* was taken by fraction-free elimination and is positive
C13_Witness ==
    /\ op = "mul_scalar.determinant" /\ arg.algo = "bareiss"
    /\ A.row = MaxDim /\ is_negative(arg.expn) /\ arg.expn # IntEx(-1)
    /\ res.kind = "ok" /\ ~is_zero(res.val) /\ ~is_negative(res.val)

\* A and B have the same number of rows and the same number of columns
SameShape == A.row = B.row /\ A.col = B.col

\* C14: add(A, B) and sub(A, B) fail with DimensionMismatch whenever A and
\* B differ in their rows or in their columns; on equal shapes the result
\* has that shape and each of its cells is the sum, respectively the
\* difference, of the two cells at its place
C14_AddSubElementwise ==
    op \in {"add", "sub"} =>
        IF ~SameShape THEN res = Fail("DimensionMismatch")
        ELSE /\ res.kind = "ok"
             /\ res.mat.row = A.row /\ res.mat.col = A.col
             /\ Len(res.mat.m) = A.row * A.col
             /\ \A r \in 0..(A.row - 1), c \in 0..(A.col - 1) :
                   At(res.mat, r, c) =
                       IF op = "add" THEN EAdd(At(A, r, c), At(B, r, c))
                       ELSE ESub(At(A, r, c), At(B, r, c))

\* a difference of two matrices of MaxArgDim rows and columns was returned
\* that holds a negative number and a cell that is 1 minus a symbol
C14_Witness ==
    /\ op = "sub" /\ res.kind = "ok"
    /\ A.row = MaxArgDim /\ A.col = MaxArgDim
    /\ \E i \in 1..Len(res.mat.m) : res.mat.m[i] = IntEx(-1)
    /\ \E i \in 1..Len(res.mat.m) : res.mat.m[i] = ESub(ex1, Sym(1))

\* C15: an element read or write by (ro, co) on a matrix of R rows and C
\* columns fails with IndexOutOfRange exactly when ro >= R or co >= C, and
\* otherwise refers to position ro*C + co of the backing sequence, which
\* lies inside it: a read returns the cell there, a write replaces that
\* cell and no other, and a failed access leaves the matrix as it was
C15_ElementAccessChecked ==
    [][op' \in {"read", "write"} =>
          /\ res'.kind = "IndexOutOfRange" <=>
                 (arg'.ro >= A.row \/ arg'.co >= A.col)
          /\ res'.kind \in {"ok", "IndexOutOfRange"}
          /\ A'.row = A.row /\ A'.col = A.col /\ Len(A'.m) = Len(A.m)
          /\ res'.kind = "IndexOutOfRange" => A' = A
          /\ res'.kind = "ok" =>
                 /\ res'.pos = arg'.ro * A.col + arg'.co
                 /\ res'.pos \in 0..(A.row * A.col - 1)
                 /\ res'.val = At(A, arg'.ro, arg'.co)
                 /\ \A i \in 1..Len(A.m) :
                       A'.m[i] = IF op' = "write" /\ i = res'.pos + 1
                                 THEN arg'.expn ELSE A.m[i]]_vars

\* a write with the column index equal to the number of columns, in a row
\* that is not the last one, was refused
C15_Witness ==
    /\ op = "write" /\ res.kind = "IndexOutOfRange"
    /\ arg.co = A.col /\ arg.ro + 1 < A.row

\* M has a row, a column and a backing sequence of exactly rows * columns
\* cells
WellFormed(M) == M.row >= 1 /\ M.col >= 1 /\ Len(M.m) = M.row * M.col

\* C16: every matrix object, however it was constructed, has a row count
\* of 1 at least, a column count of 1 at least and a backing sequence of
\* exactly rows * columns cells
C16_AlwaysWellFormed ==
    (op # "none" /\ res.kind = "ok") => WellFormed(A)

\* C17: the matrix constructed from r rows, c columns (c >= 1) and a flat
\* list of L elements has r * c cells; list element i is its cell
\* (i div c, i mod c) for every i below both L and r * c, every cell from
\* position L on is zero, and the list elements from r * c on are in no
\* cell
C17_ListPlacement ==
    (op = "matrix_lst" /\ arg.c >= 1) =>
        /\ res.kind = "ok"
        /\ A.row = arg.r /\ A.col = arg.c /\ Len(A.m) = arg.r * arg.c
        /\ \A i \in 0..(Len(arg.l) - 1) :
              i < arg.r * arg.c => At(A, i \div arg.c, i % arg.c) = arg.l[i + 1]
        /\ \A i \in Len(arg.l)..(arg.r * arg.c - 1) : A.m[i + 1] = ex0

\* a matrix of MaxArgDim rows and columns was constructed from a list that
\* is longer than it, the element that was left out differing from the
\* last cell
C17_Witness ==
    /\ op = "matrix_lst" /\ res.kind = "ok"
    /\ arg.r = MaxArgDim /\ arg.c = MaxArgDim
    /\ Len(arg.l) > arg.r * arg.c
    /\ arg.l[arg.r * arg.c + 1] # A.m[arg.r * arg.c]

\* the calls the frame claim is about
FrameOps ==
    {"determinant", "charpoly", "inverse", "solve", "pow", "transpose",
     "add", "sub", "mul"}

\* C18: determinant (with any algorithm), charpoly, inverse, solve, pow,
\* transpose, add, sub and mul leave the receiver, the matrix argument and
\* the grid of symbols as they were, shape and cells, whether the call
\* returns or throws: every in-place step runs on the call's local matrix
C18_CallsLeaveObjectsUnchanged ==
    [][op' \in FrameOps => (A' = A /\ B' = B /\ V' = V)]_vars

\* a determinant call has returned a nonzero value for a matrix of MaxDim
\* rows with a zero first cell, whose elimination interchanges rows and
\* zeroes cells of the matrix it works on
C18_Witness ==
    /\ op = "determinant" /\ arg.algo = "gauss" /\ res.kind = "ok"
    /\ A.row = MaxDim /\ A.col = MaxDim /\ is_zero(At(A, 0, 0))
    /\ ~is_zero(res.val)
    /\ gauss_elimination(A, TRUE).mat # A

\* the coefficients of (t - lambda)^3 in rising powers of lambda
CubeOfDifference(t) ==
    <<EMul(t, EMul(t, t)), EMul(IntEx(-3), EMul(t, t)), EMul(IntEx(3), t), IntEx(-1)>>

\* C19: for every square matrix A of plain numbers the polynomial charpoly
\* returns from Leverrier's method, negated for an odd dimension, is the
\* polynomial of degree A.row that determinant(A - lambda*1) is: the two
\* take the same value at the A.row + 1 places 0 .. A.row; and for
\* A = diag(t, t, t) its coefficients are those of (t - lambda)^3
C19_LeverrierIsDeterminant ==
    (op = "charpoly" /\ A.row = A.col /\ AllNumeric(A)) =>
        /\ res.kind = "ok" /\ Len(res.poly) = A.row + 1
        /\ \A v \in 0..A.row :
              PolyAt(res.poly, 1, IntEx(v)) = CharpolyByDeterminant(A, IntEx(v))
        /\ A = diag_matrix(<<A.m[1], A.m[1], A.m[1]>>) =>
              res.poly = CubeOfDifference(A.m[1])

\* charpoly has returned a polynomial without a vanishing coefficient for a
\* matrix of MaxDim rows that is not symmetric and has a zero first cell
C19_Witness ==
    /\ op = "charpoly" /\ res.kind = "ok" /\ A.row = MaxDim /\ A.col = MaxDim
    /\ is_zero(At(A, 0, 0)) /\ transpose(A) # A
    /\ \A j \in 1..Len(res.poly) : ~is_zero(res.poly[j])

\* the number of cells of X that are not zero
NonzeroCount(X) == Cardinality({i \in 1..Len(X.m) : ~is_zero(X.m[i])})

\* the algorithm the stated policy names for X when algo is requested
PolicyAlgo(X, algo) ==
    IF algo # "automatic" THEN algo
    ELSE IF AllNumeric(X) THEN "gauss"
    ELSE IF X.row > 3 /\ 5 * NonzeroCount(X) <= X.row * X.row THEN "bareiss"
    ELSE "laplace"

\* C20: determinant() of a matrix of one row returns its entry; of a larger
\* square matrix it runs, when asked to choose, gauss if every entry is a
\* plain number, else bareiss if there are more than 3 rows and 5 times the
\* number of nonzero entries is at most the number of cells, else laplace;
\* an algorithm asked for by name is the one that runs
C20_AutomaticDispatch ==
    (op = "determinant" /\ A.row = A.col) =>
        IF A.row = 1 THEN res = OkEx(A.m[1])
        ELSE /\ DeterminantAlgo(A, arg.algo) = PolicyAlgo(A, arg.algo)
             /\ res = OkEx(DeterminantBy(A, PolicyAlgo(A, arg.algo)))

\* determinant() was left to choose for a sparse matrix of more than 3
\* rows whose entries are all plain numbers, one of them not zero
C20_Witness ==
    /\ op = "determinant" /\ arg.algo = "automatic" /\ res.kind = "ok"
    /\ A.row > 3 /\ A.row = A.col /\ AllNumeric(A)
    /\ 5 * NonzeroCount(A) <= A.row * A.col /\ NonzeroCount(A) > 0

\* the last step of s that is no product with the sign
RECURSIVE LastFormStep(_)
LastFormStep(s) ==
    IF s[Len(s)] = "sign" /\ Len(s) > 1
    THEN LastFormStep(SubSeq(s, 1, Len(s) - 1))
    ELSE s[Len(s)]

\* C21: with every algorithm and for every size, the value determinant()
\* returns has been normalized last when some entry is a rational function
\* that is no polynomial, and is expanded otherwise (the constant zero is
\* both, and the sign does not change the form)
C21_ResultForm ==
    op = "determinant.form" =>
        IF arg.normal_flag
        THEN LastFormStep(res.val) \in {"normal", "zero"}
        ELSE LastFormStep(res.val) \in {"expand", "normal", "zero"}

\* the largest absolute value among the plain numbers of column co of M
\* from row ro on
LargestAbs(M, ro, co) ==
    CHOOSE a \in {Abs(At(M, k, co).k[1]) : k \in ro..(M.row - 1)} :
        \A k \in ro..(M.row - 1) : Abs(At(M, k, co).k[1]) <= a

\* the first row from ro on whose cell in column co has that absolute value
LargestAt(M, ro, co) ==
    CHOOSE k \in ro..(M.row - 1) :
        /\ Abs(At(M, k, co).k[1]) = LargestAbs(M, ro, co)
        /\ \A j \in ro..(k - 1) : Abs(At(M, j, co).k[1]) < LargestAbs(M, ro, co)

\* pivot() left the matrix was with its rows ro and k exchanged, cell by cell
RowsExchanged(was, now, ro, k) ==
    /\ now.row = was.row /\ now.col = was.col
    /\ \A r \in 0..(was.row - 1), c \in 0..(was.col - 1) :
          At(now, r, c) = At(was, IF r = ro THEN k ELSE IF r = k THEN ro ELSE r, c)

\* C22: pivot(ro, co, false) on a column of integers exchanges row ro with
\* the first row from ro on that holds the largest absolute value of the
\* column and returns that row, returns 0 without a change when that row
\* is ro, returns -1 only when the column vanishes from ro on, and reads no
\* row beyond the last
C22_NumericPivotLargest ==
    (op = "pivot" /\ ~arg.symbolic) =>
        /\ ~res.beyond
        /\ IF LargestAbs(arg.before, arg.ro, arg.co) = 0
           THEN res.indx = -1 /\ A = arg.before
           ELSE IF LargestAt(arg.before, arg.ro, arg.co) = arg.ro
           THEN res.indx = 0 /\ A = arg.before
           ELSE /\ res.indx = LargestAt(arg.before, arg.ro, arg.co)
                /\ RowsExchanged(arg.before, A, arg.ro, res.indx)

\* the rows from ro on whose cell in column co of M is not zero
NonzeroRows(M, ro, co) == {k \in ro..(M.row - 1) : ~is_zero(At(M, k, co))}

\* C23: pivot(ro, co, true) returns -1 and changes nothing when column co
\* vanishes from row ro on; else, k being the first row from ro on with a
\* nonzero cell in column co, it returns 0 and changes nothing when k = ro
\* and returns k with rows ro and k exchanged in full, and no other row
\* changed, when k > ro
C23_SymbolicPivotFirst ==
    (op = "pivot" /\ arg.symbolic) =>
        IF NonzeroRows(arg.before, arg.ro, arg.co) = {}
        THEN res.indx = -1 /\ A = arg.before
        ELSE IF arg.ro \in NonzeroRows(arg.before, arg.ro, arg.co)
        THEN res.indx = 0 /\ A = arg.before
        ELSE /\ res.indx \in NonzeroRows(arg.before, arg.ro, arg.co)
             /\ \A j \in NonzeroRows(arg.before, arg.ro, arg.co) : res.indx <= j
             /\ RowsExchanged(arg.before, A, arg.ro, res.indx)

\* pivot(0, co, true) found its first nonzero cell, a symbol, in the last
\* of MaxDim rows and exchanged two rows that differ in another column
C23_Witness ==
    /\ op = "pivot" /\ arg.symbolic /\ arg.ro = 0 /\ res.indx = MaxDim - 1
    /\ is_symbol(At(A, 0, arg.co)) /\ A # arg.before /\ A.col > 1
    /\ \E c \in 0..(A.col - 1) :
          c # arg.co /\ At(A, 0, c) # At(A, MaxDim - 1, c)

\* C24: when an exact division of fraction-free elimination fails, the
\* call fails with InternalConsistencyFault there and returns no value
C24_FailedDivisionIsAFault ==
    (op = "determinant.check" /\ ~arg.check) =>
        res.kind = "InternalConsistencyFault"

\* the column of the first nonzero cell of row r of M, M.col for a zero row
LeadingColumn(M, r) ==
    CHOOSE c \in 0..M.col :
        /\ \A j \in 0..(c - 1) : is_zero(At(M, r, j))
        /\ c < M.col => ~is_zero(At(M, r, c))

\* M is in upper echelon form
Echelon(M) ==
    \A r \in 1..(M.row - 1) :
        \/ LeadingColumn(M, r) = M.col
        \/ LeadingColumn(M, r) > LeadingColumn(M, r - 1)

\* the rows of X followed by the rows of Y
Stacked(X, Y) == Mat(X.row + Y.row, X.col, X.m \o Y.m)

\* C25: after each of the three eliminations in non-determinant mode the
\* matrix is in upper echelon form, the leading columns strictly increasing
\* downward and the zero rows last, and its rows span what they spanned
\* before
C25_EliminationGivesEchelon ==
    (op = "elimination" /\ ~arg.det) =>
        /\ Echelon(A)
        /\ Rank(A) = Rank(arg.before)
        /\ Rank(Stacked(arg.before, A)) = Rank(A)

\* C26: each elimination returns 0 for a singular square matrix, also in
\* determinant mode, and 1 or -1 by the parity of the row interchanges
\* otherwise, so that for gauss the sign times the diagonal is the determinant
C26_SignOfElimination ==
    (op = "elimination" /\ A.row = A.col) =>
        IF Det(arg.before)[1] = 0 THEN res.sign = 0
        ELSE /\ res.sign \in {-1, 1}
             /\ arg.algo = "gauss" =>
                   EMul(IntEx(res.sign), DiagProduct(A, 0, ex1)) = NumEx(Det(arg.before))
\* ---- C28
\* p comes before q in the lexicographic order of sequences of one length
LexLess(p, q) ==
    \E i \in 1..Len(p) : p[i] < q[i] /\ \A j \in 1..(i - 1) : p[j] = q[j]
\* q is the increasing sequence that follows p among those of the indices
\* 0 .. n-1
LexNext(n, p, q) ==
    /\ q \in Increasing(n, Len(p))
    /\ LexLess(p, q)
    /\ ~\E z \in Increasing(n, Len(p)) : LexLess(p, z) /\ LexLess(z, q)
\* the last increasing sequence of k of the indices 0 .. n-1
LastSubset(n, k) == AsSeq([i \in 1..k |-> n - k + i - 1])

Binomial(n, k) == Cardinality(Increasing(n, k))
\* the columns c .. n-1
ColumnsFrom(n, c) == AsSeq([i \in 1..(n - c) |-> c + i - 1])

\* C29: in determinant_minor() of a matrix of n > 3 rows the maps A and B
\* never hold more than 2*binomial(n, n/2) entries together; at the head of
\* a pass of step c the keys of A are increasing sequences of n-c-1 row
\* indices and those of B of n-c row indices; what a lookup in A gives,
\* zero for a missing key, is the minor of those rows in the columns right
\* of c, and B holds the minors of its keys in the columns from c on
C29_MapsBounded ==
    (op \in {"determinant_minor.pass", "determinant_minor"})
        => LET n == A.col
               c == res.c
           IN  /\ res.held <= 2 * Binomial(n, n \div 2)
               /\ Cardinality(DOMAIN res.A) + Cardinality(DOMAIN res.B)
                      <= 2 * Binomial(n, n \div 2)
               /\ (op = "determinant_minor.pass")
                    => /\ DOMAIN res.A \subseteq Increasing(n, n - c - 1)
                       /\ DOMAIN res.B \subseteq Increasing(n, n - c)
                       /\ \A key \in Increasing(n, n - c - 1) :
                              MapGet(res.A, key)
                                  = NumEx(Minor(A, key, ColumnsFrom(n, c + 1)))
                       /\ \A key \in DOMAIN res.B :
                              /\ res.B[key] = NumEx(Minor(A, key, ColumnsFrom(n, c)))
                              /\ ~is_zero(res.B[key])
\* a pass that reads a minor missing from A, which the lookup then stores
\* as a zero, while B holds a minor as well
C29_Witness ==
    /\ op = "determinant_minor.pass"
    /\ res.c = 1
    /\ \E key \in Increasing(A.col, 2) : key \notin DOMAIN res.A
    /\ \E key \in DOMAIN res.A : is_zero(res.A[key])
    /\ DOMAIN res.B # {}
    /\ res.held >= 8
\* ---- C30
\* the slag of the division-free elimination T of a square matrix: the
\* product over d < n-2 of the d-th diagonal pivot to the power n-d-2
SlagOf(T) ==
    LET prod[d \in 0..(T.row - 2)] ==
            IF d = 0 THEN R1
            ELSE RMul(prod[d - 1], RPow(At(T, d - 1, d - 1).k, T.row - d - 1))
    IN  prod[T.row - 2]

\* C30: for every square A of 2 rows or more, determinant(A) under divfree
\* returns the determinant of A by cofactor expansion, which is what gauss,
\* bareiss and laplace return; the last cell of the division-free
\* elimination is the determinant times the swap sign times the slag, the
\* d-th pivot to the power n-d-2 for each d < n-2; and the result is 0 when
\* the elimination met a degenerate pivot column
C30_DivFreeDeterminant ==
    (op = "determinant" /\ arg.algo = "divfree" /\ A.row = A.col /\ A.row >= 2) =>
        LET e == division_free_elimination(A, TRUE)
        IN  /\ res.kind = "ok"
            /\ res.val = NumEx(Det(A))
            /\ \A a \in DetTrio : res = determinant(A, a)
            /\ (e.sign = 0) => is_zero(res.val)
            /\ (e.sign # 0) =>
                  e.mat.m[A.row * A.col].k
                      = RMul(RMul(<<e.sign, 1>>, Det(A)), SlagOf(e.mat))
\* the division-free determinant of a matrix of DetDim rows that needed an
\* odd number of row interchanges and left a slag other than 1 and -1 was
\* nonzero
C30_Witness ==
    /\ op = "determinant" /\ arg.algo = "divfree" /\ A.row = DetDim
    /\ division_free_elimination(A, TRUE).sign = -1
    /\ Abs(SlagOf(division_free_elimination(A, TRUE).mat)[1]) > 1
    /\ res.kind = "ok" /\ ~is_zero(res.val)

\* ---- C27
\* C27: in fraction_free_elimination() of a matrix of rational functions,
\* square or not, with or without row interchanges and degenerate columns,
\* every division of a cross-product numerator by the numerator of the
\* previous pivot and of a cross-product denominator by its denominator is
\* exact: check is true at every step
C27_DivisionsExact ==
    (op = "fraction_free_elimination") => res.check
\* an elimination whose first pivot is the cell x, which then skipped the
\* degenerate second column and went on to divide by that pivot: the run
\* kept all rows (det is false), reports sign 0 and left a numerator of
\* degree 3 or more over a denominator that is not a number in the last
\* cell of a matrix of four columns
C27_Witness ==
    /\ op = "fraction_free_elimination" /\ ~arg.det
    /\ arg.before.row = 3 /\ arg.before.col = 4
    /\ At(arg.before, 0, 0).n = polyx
    /\ res.sign = 0 /\ res.check
    /\ Len(At(A, 2, 3).n) >= 4
    /\ Len(At(A, 2, 3).d) >= 2

====
